---- MODULE Spec2Model ----
(***************************************************************************)
(* Model of the AiDA rightsizing engine: the /scale/confirm/ safety gate   *)
(* and background resize (instance_scaling.py, ec2_scaling.py), the        *)
(* recommendation store (scale_recommendation), the gap-filling metrics    *)
(* cache (get_instance_metrics) and the per-host fan-out of cluster_status *)
(* (monitoring_status.py).                                                 *)
(*                                                                         *)
(* Time is counted in minutes for the scaling part and in seconds for the  *)
(* metrics part.  Documents of the Elasticsearch indices are records; an   *)
(* index is a function from document id to a record, or a sequence of      *)
(* documents in insertion order.                                           *)
(***************************************************************************)
EXTENDS Integers, Sequences, FiniteSets, TLC

VARIABLES
    now,          \* wall clock, minutes
    logs,         \* index scale_status_log: doc id -> document or NoDoc
    recs,         \* index scale_recommendations: instance id -> number of documents
    req,          \* /scale/confirm/ requests: locals and position of each
    calls,        \* EC2 control calls issued per resize (request, instance)
    gateLog,      \* per request: what the gate saw when it classified each hit
    cancelMark,   \* per log: length of steps and calls when it was canceled
    faults,       \* number of control-API calls that raised so far
    recCall,      \* scale_recommendation calls: locals and position of each
    recCalls,     \* number of scale_recommendation calls started so far
    store,        \* index ec2_metrics: metric label -> timestamps in insertion order
    mcall,        \* get_instance_metrics calls: locals and position of each
    fetches,      \* CloudWatch get_metric_statistics calls issued so far
    mwindows,     \* the time windows the metrics calls of this behaviour ask for
    cycle,        \* cluster_status: position and result of the cycle
    host,         \* cluster_status: the _process_host task of each host
    ldoc,         \* one scale_status_log document written by several writers
    writer,       \* the writers of that document, locals and position of each
    appended,     \* the steps whose append_step returned, in the order of the updates
    missing,      \* the steps whose append_step found no document
    fail_state,   \* server_status_check: the rules of base_config (status_checks.fail_state)
    tasks,        \* server_status_check: the snapshots it is given
    final_result, \* server_status_check: what the call produced
    type_specs,   \* recommend_instance, the cache of instance type specs
    rlog,         \* recommend_instance, the evaluations made (input, result)
    results       \* get_instance_metrics, the series of the host and what is derived from them

scaleVars == <<now, logs, recs, req, calls, gateLog, cancelMark, faults>>
recVars == <<recCall, recCalls>>
metricVars == <<store, mcall, fetches, mwindows>>
clusterVars == <<cycle, host>>
logVars == <<ldoc, writer, appended, missing>>
statusVars == <<fail_state, tasks, final_result>>
engineVars == <<type_specs, rlog>>
deriveVars == <<results>>
vars == <<scaleVars, recVars, metricVars, clusterVars, logVars, statusVars, engineVars, deriveVars>>

Range(s) == {s[j] : j \in 1..Len(s)}

(***************************************************************************)
(* Bounds of the model.                                                    *)
(***************************************************************************)
MaxTime == 40        \* the clock stops here
TickMinutes == 20    \* granularity of the clock
MaxFaults == 1       \* control-API calls that may raise in one behaviour
MaxCancels == 1      \* logs that may be canceled externally in one behaviour
MaxRecCalls == 3     \* scale_recommendation calls in one behaviour
MaxSamples == 4      \* the small time windows end at most this many periods after 0
MaxWriterOps == 2    \* operations each writer of the shared log document starts
MaxEntries == 2      \* disk entries of a snapshot, datapoints of a series
MaxEvals == 2        \* evaluations of recommend_instance in one behaviour

(***************************************************************************)
(* Fleet: the latest monitoring_data document of each host, and the        *)
(* inventory configuration (agent/config.yaml, status_checks.environments).*)
(***************************************************************************)
Instances == {"i1", "i2", "i3", "i4"}
Reqs == {"r1", "r2"}
\* the instances a confirm request is made for ("i2" is a peer of "i1")
Targets == {"i1", "i3", "i4"}
NoName == "none"
NoTag == "none"

\* monitoring_data hits in the order the search returns them (timestamp desc)
HitOrder == <<"i1", "i2", "i3", "i4">>

MonitoringData ==
    [i \in Instances |->
        CASE i = "i1" -> [InstanceId |-> "i1", name |-> "web-1", GroupTag |-> "g1",
                          Project |-> "p", Environment |-> "prod", Region |-> "us-east-1",
                          Program |-> "app", InstanceType |-> "m5.large",
                          State |-> "running", AsgName |-> NoTag]
          [] i = "i2" -> [InstanceId |-> "i2", name |-> NoName, GroupTag |-> "g1",
                          Project |-> "p", Environment |-> "prod", Region |-> "us-east-1",
                          Program |-> "app", InstanceType |-> "m5.large",
                          State |-> "running", AsgName |-> NoTag]
          [] i = "i3" -> [InstanceId |-> "i3", name |-> "db-1", GroupTag |-> "g1",
                          Project |-> "p", Environment |-> "prod", Region |-> "us-east-1",
                          Program |-> "db", InstanceType |-> "m5.large",
                          State |-> "running", AsgName |-> NoTag]
          [] OTHER    -> [InstanceId |-> "i4", name |-> "asg-1", GroupTag |-> "g1",
                          Project |-> "p", Environment |-> "prod", Region |-> "us-east-1",
                          Program |-> "app", InstanceType |-> "m5.xlarge",
                          State |-> "running", AsgName |-> "asg-a"]]

\* status_checks.environments: program -> scale_as_group_tag configured or not
Environments ==
    << [project |-> "p", environment |-> "prod", region |-> "us-east-1",
        programs |-> [p \in {"app", "db"} |-> [scale_as_group_tag |-> (p = "app")]]] >>

\* instance['_source'].get("name", "Name not Assigned")
HitName(i) ==
    IF MonitoringData[i].name = NoName THEN "Name not Assigned" ELSE MonitoringData[i].name

(***************************************************************************)
(* scale_status_log documents and the two writers of ec2_scaling.py.       *)
(***************************************************************************)
NoTime == -1
NoDoc == [found |-> FALSE]
DocIds == Reqs \X Instances      \* one uuid4 per (request, safe instance)
GateWindow == 30                 \* "now-30m"

Step(step, percent_complete, status, message) ==
    [step |-> step, percent_complete |-> percent_complete,
     status |-> status, message |-> message]

\* log_to_elasticsearch(doc_id, instance_id, {}): create the base document when
\* the get finds none, then merge the (empty) partial update
LogToElasticsearch(doc, instance_id) ==
    IF doc.found THEN doc
    ELSE [found |-> TRUE, instance_id |-> instance_id, status |-> "in_progress",
          steps |-> <<>>, lastUpdated |-> NoTime]

\* the scripted update of append_step, applied to an existing document
AppendStep(doc, step, t) ==
    [doc EXCEPT !.steps = Append(@, step), !.status = step.status, !.lastUpdated = t]

(***************************************************************************)
(* The safety gate of scale_using_recommendation.                          *)
(***************************************************************************)
\* the bool/must query on monitoring_data built from the requester's state
GroupQuery(cs, doc) ==
    /\ doc.GroupTag = cs.GroupTag
    /\ doc.Project = cs.Project
    /\ doc.Environment = cs.Environment
    /\ doc.State = "running"
    /\ doc.Region = cs.Region
    /\ doc.Program = cs.Program
    /\ doc.InstanceType = cs.InstanceType

\* the environments of the configuration that match the requester and whose
\* program has a scale_as_group_tag
EnvMatches(cs, env) ==
    /\ env.project = cs.Project
    /\ env.environment = cs.Environment
    /\ cs.Region = env.region
    /\ env.programs[cs.Program].scale_as_group_tag

\* other_instances['hits']['hits'] of every matching environment, in order
RECURSIVE GateHits(_, _)
GateHits(cs, envs) ==
    IF envs = <<>> THEN <<>>
    ELSE (IF EnvMatches(cs, Head(envs))
          THEN SelectSeq(HitOrder, LAMBDA j : GroupQuery(cs, MonitoringData[j]))
          ELSE <<>>) \o GateHits(cs, Tail(envs))

\* es.count on scale_status_log for one instance at time t
InProgressCountNoWindow(id, t) ==
    Cardinality({d \in DocIds :
        /\ logs[d].found
        /\ logs[d].instance_id = id
        /\ logs[d].status = "in_progress"
        /\ logs[d].lastUpdated # NoTime})

InProgressCount(id, t) ==
    Cardinality({d \in DocIds :
        /\ logs[d].found
        /\ logs[d].instance_id = id
        /\ logs[d].status = "in_progress"
        /\ logs[d].lastUpdated # NoTime
        /\ logs[d].lastUpdated >= t - GateWindow
        /\ logs[d].status # "canceled"})

\* whether the status log index holds, at time t, an in_progress log of the
\* instance whose lastUpdated lies within the last 30 minutes (recorded with
\* each verdict of the gate)
RecentInProgress(id, t) ==
    \E d \in DocIds :
        /\ logs[d].found
        /\ logs[d].instance_id = id
        /\ logs[d].status = "in_progress"
        /\ logs[d].lastUpdated # NoTime
        /\ t - logs[d].lastUpdated <= 30

IdleReq ==
    [pc |-> "idle", instance_id |-> "none", todo |-> <<>>,
     safe_to_scale |-> <<>>, safe_to_scale_names |-> <<>>,
     not_safe_to_scale_names |-> <<>>, status_code |-> 0, final_message |-> <<>>,
     k |-> 0, exc |-> "", raised |-> ""]

\* POST /scale/confirm/ up to the search of the group members
Confirm(r, i) ==
    /\ req[r].pc = "idle"
    /\ req' = [req EXCEPT ![r] =
          IF recs[i] = 0
          THEN [@ EXCEPT !.pc = "done", !.instance_id = i, !.status_code = 404]
          ELSE IF MonitoringData[i].AsgName # NoTag
          THEN [@ EXCEPT !.pc = "done", !.instance_id = i, !.status_code = 403,
                         !.final_message = <<[kind |-> "asg", names |-> <<>>]>>]
          ELSE [@ EXCEPT !.pc = "gate", !.instance_id = i,
                         !.todo = GateHits(MonitoringData[i], Environments)]]
    /\ UNCHANGED <<deriveVars, engineVars, statusVars, logVars, recVars, metricVars, clusterVars, now, logs, recs, calls, gateLog, cancelMark, faults>>

\* one iteration of the loop over the hits: the count query and the verdict
GateCheck(r) ==
    /\ req[r].pc = "gate"
    /\ req[r].todo # <<>>
    /\ LET id == Head(req[r].todo)
           safe == InProgressCount(id, now) = 0
       IN IF id \in Range(req[r].safe_to_scale)
          THEN /\ req' = [req EXCEPT ![r].todo = Tail(@)]
               /\ UNCHANGED gateLog
          ELSE /\ req' = [req EXCEPT
                    ![r].todo = Tail(@),
                    ![r].safe_to_scale = IF safe THEN Append(@, id) ELSE @,
                    ![r].safe_to_scale_names = IF safe THEN Append(@, HitName(id)) ELSE @,
                    ![r].not_safe_to_scale_names =
                        IF safe THEN @ ELSE Append(@, HitName(id))]
               /\ gateLog' = [gateLog EXCEPT ![r] =
                    Append(@, [id |-> id, safe |-> safe, blocked |-> RecentInProgress(id, now)])]
    /\ UNCHANGED <<deriveVars, engineVars, statusVars, logVars, recVars, metricVars, clusterVars, now, logs, recs, calls, cancelMark, faults>>

\* final_message and status code of the response
ResponseDropUnsafe(q) ==
    [status_code |-> IF Len(q.safe_to_scale_names) > 0 THEN 200
                     ELSE IF Len(q.not_safe_to_scale_names) > 0 THEN 403 ELSE 200,
     final_message |->
        (IF Len(q.safe_to_scale_names) > 0
         THEN <<[kind |-> "started", names |-> q.safe_to_scale_names]>>
         ELSE IF Len(q.not_safe_to_scale_names) > 0
              THEN <<[kind |-> "blocked", names |-> q.not_safe_to_scale_names]>>
              ELSE <<>>)]

Response(q) ==
    [status_code |-> IF Len(q.safe_to_scale_names) > 0 THEN 200
                     ELSE IF Len(q.not_safe_to_scale_names) > 0 THEN 403 ELSE 200,
     final_message |->
        (IF Len(q.not_safe_to_scale_names) > 0
         THEN <<[kind |-> "blocked", names |-> q.not_safe_to_scale_names]>>
         ELSE <<>>)
        \o
        (IF Len(q.safe_to_scale_names) > 0
         THEN <<[kind |-> "started", names |-> q.safe_to_scale_names]>>
         ELSE <<>>)]

\* the end of the handler: the response, and the background task when some
\* instance is safe
Respond(r) ==
    /\ req[r].pc = "gate"
    /\ req[r].todo = <<>>
    /\ LET resp == Response(req[r])
       IN req' = [req EXCEPT
            ![r].status_code = resp.status_code,
            ![r].final_message = resp.final_message,
            ![r].k = IF Len(req[r].safe_to_scale_names) > 0 THEN 1 ELSE 0,
            ![r].pc = IF Len(req[r].safe_to_scale_names) > 0 THEN "bg_log" ELSE "done"]
    /\ UNCHANGED <<deriveVars, engineVars, statusVars, logVars, recVars, metricVars, clusterVars, now, logs, recs, calls, gateLog, cancelMark, faults>>

(***************************************************************************)
(* background_scaling_task and scale_instance.                             *)
(***************************************************************************)
CurrentInstance(r) == req[r].safe_to_scale[req[r].k]
CurrentDoc(r) == <<r, CurrentInstance(r)>>

\* first loop: log_to_elasticsearch(es_doc_ids[id], id, {})
BgCreateLog(r) ==
    /\ req[r].pc = "bg_log"
    /\ logs' = [logs EXCEPT ![CurrentDoc(r)] = LogToElasticsearch(@, CurrentInstance(r))]
    /\ req' = [req EXCEPT ![r].pc = "bg_init"]
    /\ UNCHANGED <<deriveVars, engineVars, statusVars, logVars, recVars, metricVars, clusterVars, now, recs, calls, gateLog, cancelMark, faults>>

\* a task that starts the resize of an instance right after its own log
AfterInitStepNoBarrier(q) == [q EXCEPT !.pc = "bg_delete"]

\* the first loop goes on to the next safe instance; the second loop starts
\* only when the first is through
AfterInitStep(q) ==
    [q EXCEPT !.pc = IF q.k < Len(q.safe_to_scale) THEN "bg_log" ELSE "bg_delete",
              !.k = IF q.k < Len(q.safe_to_scale) THEN @ + 1 ELSE 1]

\* first loop: append_step(es_doc_ids[id], "Scale operation initiated ...", 0)
BgInitStep(r) ==
    /\ req[r].pc = "bg_init"
    /\ logs' = [logs EXCEPT ![CurrentDoc(r)] =
          AppendStep(@, Step("Scale operation initiated", 0, "in_progress", ""), now)]
    /\ req' = [req EXCEPT ![r] = AfterInitStep(@)]
    /\ UNCHANGED <<deriveVars, engineVars, statusVars, logVars, recVars, metricVars, clusterVars, now, recs, calls, gateLog, cancelMark, faults>>

\* second loop: delete_by_query on scale_recommendations, then scale_instance
BgDeleteRec(r) ==
    /\ req[r].pc = "bg_delete"
    /\ recs' = [recs EXCEPT ![CurrentInstance(r)] = 0]
    /\ req' = [req EXCEPT ![r].pc = "s10"]
    /\ UNCHANGED <<deriveVars, engineVars, statusVars, logVars, recVars, metricVars, clusterVars, now, logs, calls, gateLog, cancelMark, faults>>

\* the journaled steps of stop_instance, change_instance_type, start_instance
ProgressPcs == {"s10", "s30", "s40", "s60", "s70", "s100"}

ProgressStep(pc) ==
    CASE pc = "s10"  -> Step("Stopping instance", 10, "in_progress", "")
      [] pc = "s30"  -> Step("Instance stopped", 30, "in_progress", "")
      [] pc = "s40"  -> Step("Changing instance type", 40, "in_progress", "")
      [] pc = "s60"  -> Step("Instance type changed", 60, "in_progress", "")
      [] pc = "s70"  -> Step("Starting instance", 70, "in_progress", "")
      [] pc = "s100" -> Step("Instance running", 100, "completed", "")

\* what follows each journaled step in the code
AfterProgressSkipBegin(pc) ==
    CASE pc = "s10" -> "stop"
      [] pc = "s30" -> "modify"
      [] pc = "s40" -> "modify"
      [] pc = "s60" -> "s70"
      [] pc = "s70" -> "start"
      [] pc = "s100" -> "next"

AfterProgress(pc) ==
    CASE pc = "s10" -> "stop"
      [] pc = "s30" -> "s40"
      [] pc = "s40" -> "modify"
      [] pc = "s60" -> "s70"
      [] pc = "s70" -> "start"
      [] pc = "s100" -> "next"

\* the control-API calls and waiters, and what follows each when it returns
ApiPcs == {"stop", "wait_stopped", "modify", "start", "wait_running"}

AfterApiSkipWait(pc) ==
    CASE pc = "stop" -> "wait_stopped"
      [] pc = "wait_stopped" -> "s30"
      [] pc = "modify" -> "s60"
      [] pc = "start" -> "s100"
      [] pc = "wait_running" -> "s100"

\* a stop_instance without the instance_stopped waiter
AfterApiNoStopWait(pc) ==
    CASE pc = "stop" -> "s30"
      [] pc = "wait_stopped" -> "s30"
      [] pc = "modify" -> "s60"
      [] pc = "start" -> "wait_running"
      [] pc = "wait_running" -> "s100"

AfterApi(pc) ==
    CASE pc = "stop" -> "wait_stopped"
      [] pc = "wait_stopped" -> "s30"
      [] pc = "modify" -> "s60"
      [] pc = "start" -> "wait_running"
      [] pc = "wait_running" -> "s100"

\* str(e) of the exception a control call raises
ErrorMessage(op) ==
    CASE op = "stop" -> "ClientError: StopInstances"
      [] op = "wait_stopped" -> "WaiterError: instance_stopped"
      [] op = "modify" -> "ClientError: ModifyInstanceAttribute"
      [] op = "start" -> "ClientError: StartInstances"
      [] op = "wait_running" -> "WaiterError: instance_running"

\* await append_step(doc_id, <step>, <percent>) inside scale_instance
AppendProgress(r) ==
    /\ req[r].pc \in ProgressPcs
    /\ logs' = [logs EXCEPT ![CurrentDoc(r)] = AppendStep(@, ProgressStep(req[r].pc), now)]
    /\ LET next == AfterProgress(req[r].pc)
       IN req' = [req EXCEPT
            ![r].pc = IF next # "next" THEN next
                      ELSE IF req[r].k < Len(req[r].safe_to_scale) THEN "bg_delete"
                      ELSE "done",
            ![r].k = IF next = "next" /\ req[r].k < Len(req[r].safe_to_scale)
                     THEN @ + 1 ELSE @]
    /\ UNCHANGED <<deriveVars, engineVars, statusVars, logVars, recVars, metricVars, clusterVars, now, recs, calls, gateLog, cancelMark, faults>>

\* a control call or waiter that returns
ApiReturns(r) ==
    /\ req[r].pc \in ApiPcs
    /\ calls' = [calls EXCEPT ![CurrentDoc(r)] = Append(@, [op |-> req[r].pc, ok |-> TRUE])]
    /\ req' = [req EXCEPT ![r].pc = AfterApi(req[r].pc)]
    /\ UNCHANGED <<deriveVars, engineVars, statusVars, logVars, recVars, metricVars, clusterVars, now, logs, recs, gateLog, cancelMark, faults>>

\* a control call or waiter that raises: control passes to the except clause
ApiRaises(r) ==
    /\ req[r].pc \in ApiPcs
    /\ faults < MaxFaults
    /\ faults' = faults + 1
    /\ calls' = [calls EXCEPT ![CurrentDoc(r)] = Append(@, [op |-> req[r].pc, ok |-> FALSE])]
    /\ req' = [req EXCEPT ![r].pc = "except", ![r].exc = ErrorMessage(req[r].pc)]
    /\ UNCHANGED <<deriveVars, engineVars, statusVars, logVars, recVars, metricVars, clusterVars, now, logs, recs, gateLog, cancelMark>>

\* except Exception as e: append the failed step, re-raise; the background
\* task catches the exception, logs it and ends
ExceptClauseRetry(q) == [q EXCEPT !.pc = "s10", !.raised = ""]

\* a task that goes on with the next safe instance after a failed resize
ExceptClauseContinue(q) ==
    [q EXCEPT !.pc = IF q.k < Len(q.safe_to_scale) THEN "bg_delete" ELSE "done",
              !.k = IF q.k < Len(q.safe_to_scale) THEN @ + 1 ELSE @,
              !.raised = ""]

ExceptClause(q) == [q EXCEPT !.pc = "done", !.raised = q.exc]

HandleFailure(r) ==
    /\ req[r].pc = "except"
    /\ logs' = [logs EXCEPT ![CurrentDoc(r)] =
          AppendStep(@, Step("Error occurred", 0, "failed", req[r].exc), now)]
    /\ req' = [req EXCEPT ![r] = ExceptClause(@)]
    /\ UNCHANGED <<deriveVars, engineVars, statusVars, logVars, recVars, metricVars, clusterVars, now, recs, calls, gateLog, cancelMark, faults>>

(***************************************************************************)
(* The environment of the scaling part: the clock, and the external writer *)
(* that marks a resize canceled in its log.                                *)
(***************************************************************************)
Tick ==
    /\ now + TickMinutes <= MaxTime
    /\ now' = now + TickMinutes
    /\ UNCHANGED <<deriveVars, engineVars, statusVars, logVars, recVars, metricVars, clusterVars, logs, recs, req, calls, gateLog, cancelMark, faults>>

NoMark == [steps |-> -1, calls |-> -1]

Cancel(d) ==
    /\ logs[d].found
    /\ logs[d].status = "in_progress"
    /\ Cardinality({e \in DocIds : cancelMark[e] # NoMark}) < MaxCancels
    /\ logs' = [logs EXCEPT ![d].status = "canceled"]
    /\ cancelMark' = [cancelMark EXCEPT ![d] =
          [steps |-> Len(logs[d].steps), calls |-> Len(calls[d])]]
    /\ UNCHANGED <<deriveVars, engineVars, statusVars, logVars, recVars, metricVars, clusterVars, now, recs, req, calls, gateLog, faults>>

\* the scaling part before any request
NoLogs == [d \in DocIds |-> NoDoc]
OneRecEach == [i \in Instances |-> 1]
NoReqs == [r \in Reqs |-> IdleReq]
NoCalls == [d \in DocIds |-> <<>>]
NoGateLog == [r \in Reqs |-> <<>>]
NoMarks == [d \in DocIds |-> NoMark]

(***************************************************************************)
(* scale_recommendation (GET /scale/recommendation/).                      *)
(***************************************************************************)
RecCallers == {"c1", "c2"}
RecTargets == Instances \cup {"all"}
NoRecs == [i \in Instances |-> 0]
IdleRecCall == [pc |-> "idle", instance_id |-> "none", todo |-> <<>>]
NoRecCalls == [c \in RecCallers |-> IdleRecCall]

\* es.delete_by_query on scale_recommendations: match_all, or the term query
DeleteByQuery(index, instance_id) ==
    [i \in Instances |-> IF instance_id = "all" \/ i = instance_id THEN 0 ELSE index[i]]

\* es.index without an id: one more document for the instance
IndexRecommendation(index, instance_id) ==
    [index EXCEPT ![instance_id] = @ + 1]

\* the call up to its first await after the delete
RecDelete(c, target) ==
    /\ recCall[c].pc \in {"idle", "done"}
    /\ recCalls < MaxRecCalls
    /\ recCalls' = recCalls + 1
    /\ recs' = DeleteByQuery(recs, target)
    /\ recCall' = [recCall EXCEPT ![c] =
          [pc |-> "status", instance_id |-> target, todo |-> <<>>]]
    /\ UNCHANGED <<deriveVars, engineVars, statusVars, logVars, metricVars, clusterVars, now, logs, req, calls, gateLog, cancelMark, faults>>

\* await cluster_status(...): the hosts the loop will go through
RecStatus(c) ==
    /\ recCall[c].pc = "status"
    /\ recCall' = [recCall EXCEPT
          ![c].pc = "index",
          ![c].todo = IF recCall[c].instance_id = "all" THEN HitOrder
                      ELSE <<recCall[c].instance_id>>]
    /\ UNCHANGED <<deriveVars, engineVars, statusVars, logVars, recCalls, metricVars, clusterVars, now, logs, recs, req, calls, gateLog,
                   cancelMark, faults>>

\* one iteration of the loop: recommend_instance and es.index of the result;
\* a call for one instance returns after it
RecIndex(c) ==
    /\ recCall[c].pc = "index"
    /\ recCall[c].todo # <<>>
    /\ recs' = IndexRecommendation(recs, Head(recCall[c].todo))
    /\ recCall' = [recCall EXCEPT
          ![c].todo = Tail(@),
          ![c].pc = IF recCall[c].instance_id # "all" \/ Len(recCall[c].todo) = 1
                    THEN "done" ELSE "index"]
    /\ UNCHANGED <<deriveVars, engineVars, statusVars, logVars, recCalls, metricVars, clusterVars, now, logs, req, calls, gateLog,
                   cancelMark, faults>>

(***************************************************************************)
(* cluster_status and _process_host: one fleet cycle.                      *)
(***************************************************************************)
HostIps == {"10.0.0.1", "10.0.0.2", "10.0.0.3"}
NoValue == -1
DiskPercents == {NoValue, 80, 95}       \* percent of the "/" entry; NoValue: no percent
DiskThreshold == 90                     \* {partition "/", compare_logic gte, value 90}

\* compare(val, logic, threshold) for a number or None: "true", "false", or
\* the exception raised
Compare(val, logic, threshold) ==
    IF val = NoValue THEN "TypeError"
    ELSE CASE logic = "gte" -> IF val >= threshold THEN "true" ELSE "false"
           [] logic = "lte" -> IF val <= threshold THEN "true" ELSE "false"
           [] logic = "equals" -> IF val = threshold THEN "true" ELSE "false"
           [] logic = "not_equals" -> IF val # threshold THEN "true" ELSE "false"
           [] OTHER -> "ValueError"

\* d.get(key): the value, or None
Get(d, key) == IF key \in DOMAIN d THEN d[key] ELSE NoValue

\* final_result.setdefault(service, {})[key] = {description, result, detail}
Put(out, service, key, description, val) ==
    [k \in DOMAIN out \cup {<<service, key>>} |->
        IF k = <<service, key>>
        THEN [description |-> description, result |-> TRUE, detail |-> val]
        ELSE out[k]]

\* the accumulator of an evaluation: final_result, or the exception under way
Raise(acc) == [acc EXCEPT !.raised = TRUE]

\* for condition in conditions: if compare(val, ...): final_result[...] = ...
\* (no break), from condition i on
RECURSIVE Conditions(_, _, _, _, _, _)
Conditions(acc, service, key, val, conditions, i) ==
    IF acc.raised \/ i > Len(conditions) THEN acc
    ELSE LET c == Compare(val, conditions[i].compare_logic, conditions[i].value)
         IN IF c \in {"TypeError", "ValueError"} THEN Raise(acc)
            ELSE Conditions(
                    IF c = "true"
                    THEN [acc EXCEPT !.out = Put(@, service, key, conditions[i].description, val)]
                    ELSE acc,
                    service, key, val, conditions, i + 1)

\* the newest datapoint: max(datapoints, key=Timestamp), the first of the
\* maximal ones
LatestPoint(datapoints) ==
    LET k == CHOOSE k \in 1..Len(datapoints) :
                 /\ \A j \in 1..Len(datapoints) : datapoints[j].Timestamp <= datapoints[k].Timestamp
                 /\ \A j \in 1..(k - 1) : datapoints[j].Timestamp < datapoints[k].Timestamp
    IN datapoints[k]

\* the cloudwatch case: conf is a sequence of [metric, conditions], from
\* metric m on
RECURSIVE CloudwatchRule(_, _, _, _)
CloudwatchRule(acc, conf, data, m) ==
    IF acc.raised \/ m > Len(conf) THEN acc
    ELSE LET metric == conf[m].metric
             datapoints == IF metric \in DOMAIN data THEN data[metric] ELSE <<>>
             val == IF datapoints = <<>> THEN NoValue
                    ELSE Get(LatestPoint(datapoints), "Average")
         IN CloudwatchRule(
               IF val = NoValue THEN acc
               ELSE Conditions(acc, "cloudwatch", metric, val, conf[m].conditions, 1),
               conf, data, m + 1)

\* the disk case for one condition: every entry of the partition of the
\* condition is compared, from entry j on
RECURSIVE DiskEntries(_, _, _, _)
DiskEntries(acc, condition, data, j) ==
    IF acc.raised \/ j > Len(data) THEN acc
    ELSE IF Get(data[j], "partition") # condition.partition
         THEN DiskEntries(acc, condition, data, j + 1)
         ELSE LET val == Get(data[j], "percent")
                  c == Compare(val, condition.compare_logic, condition.value)
              IN IF c \in {"TypeError", "ValueError"} THEN Raise(acc)
                 ELSE DiskEntries(
                         IF c = "true"
                         THEN [acc EXCEPT !.out = Put(@, "disk", condition.partition,
                                                      condition.description, val)]
                         ELSE acc,
                         condition, data, j + 1)

\* CASE A, service disk: the conditions of the list in order, from i on
RECURSIVE DiskRule(_, _, _, _)
DiskRule(acc, conf, data, i) ==
    IF acc.raised \/ i > Len(conf) THEN acc
    ELSE DiskRule(DiskEntries(acc, conf[i], data, 1), conf, data, i + 1)

\* CASE B, a dict-based service: conf is a sequence of [metric, conditions];
\* a metric the blob does not hold is skipped
RECURSIVE DictRule(_, _, _, _, _)
DictRule(acc, service, conf, data, m) ==
    IF acc.raised \/ m > Len(conf) THEN acc
    ELSE LET val == Get(data, conf[m].metric)
         IN DictRule(
               IF val = NoValue THEN acc
               ELSE Conditions(acc, service, conf[m].metric, val, conf[m].conditions, 1),
               service, conf, data, m + 1)

\* for service, conf in fail_state.items(), from entry s on, for one blob
RECURSIVE Services(_, _, _, _)
Services(acc, fs, service_dict, s) ==
    IF acc.raised \/ s > Len(fs) THEN acc
    ELSE LET service == fs[s].service
             conf == fs[s].conf
         IN Services(
               IF service = "default" \/ service \notin DOMAIN service_dict THEN acc
               ELSE IF service = "cloudwatch" /\ fs[s].kind = "dict"
                    THEN CloudwatchRule(acc, conf, service_dict[service], 1)
               ELSE IF fs[s].kind = "list"
                    THEN (IF service = "disk" THEN DiskRule(acc, conf, service_dict[service], 1)
                          ELSE acc)
               ELSE DictRule(acc, service, conf, service_dict[service], 1),
               fs, service_dict, s + 1)

\* for service_dict in snapshot, from blob b on
RECURSIVE Blobs(_, _, _, _)
Blobs(acc, fs, snapshot, b) ==
    IF acc.raised \/ b > Len(snapshot) THEN acc
    ELSE Blobs(Services(acc, fs, snapshot[b], 1), fs, snapshot, b + 1)

\* for snapshot in tasks, from snapshot t on
RECURSIVE Snapshots(_, _, _, _)
Snapshots(acc, fs, snaps, t) ==
    IF acc.raised \/ t > Len(snaps) THEN acc
    ELSE Snapshots(Blobs(acc, fs, snaps[t], 1), fs, snaps, t + 1)

EmptyResult == [raised |-> FALSE, out |-> << >>]

\* server_status_check(tasks) under the rules fs: final_result as a function
\* from (service, key) to the failing state, or raised
ServerStatusCheck(fs, snaps) == Snapshots(EmptyResult, fs, snaps, 1)

NoRules == << >>
NoResult == [done |-> FALSE, raised |-> FALSE, out |-> << >>]
NoSpecs == [it \in {} |-> 0]
NoSeries == [pc |-> "merged", bw_bps |-> 0, network_in |-> << >>, network_out |-> << >>]

\* the call of server_status_check on the given rules and snapshots
StatusCheck ==
    /\ ~final_result.done
    /\ LET r == ServerStatusCheck(fail_state, tasks)
       IN final_result' = [done |-> TRUE, raised |-> r.raised, out |-> r.out]
    /\ UNCHANGED <<deriveVars, engineVars, fail_state, tasks, logVars, scaleVars, recVars, metricVars, clusterVars>>

\* the rule of the fleet cycle: {partition "/", compare_logic gte, value 90}
RootFull ==
    [partition |-> "/", compare_logic |-> "gte", value |-> DiskThreshold,
     description |-> "root full"]

\* server_status_check([task]) of _process_host for a task whose disk list is
\* the "/" entry
HostStatusCheck(percent) ==
    LET entry == IF percent = NoValue THEN [partition |-> "/"]
                 ELSE [partition |-> "/", percent |-> percent]
        r == ServerStatusCheck(<<[service |-> "disk", kind |-> "list", conf |-> <<RootFull>>]>>,
                               <<<<[disk |-> <<entry>>]>>>>)
    IN [raised |-> r.raised, failing |-> (~r.raised /\ DOMAIN r.out # {})]

\* rules and snapshots the evaluator is run on
RootWarn ==
    [partition |-> "/", compare_logic |-> "gte", value |-> 80, description |-> "root warn"]
DataFull ==
    [partition |-> "/data", compare_logic |-> "gte", value |-> 90, description |-> "data full"]
DiskConfs == {<<RootFull>>, <<RootFull, RootWarn>>, <<RootWarn, RootFull>>, <<RootFull, DataFull>>}

MongoConf ==
    << [metric |-> "connections",
        conditions |-> << [compare_logic |-> "gte", value |-> 100, description |-> "many connections"],
                          [compare_logic |-> "gte", value |-> 400, description |-> "too many connections"] >>] >>

CloudwatchConf ==
    << [metric |-> "cpu",
        conditions |-> << [compare_logic |-> "gte", value |-> 90, description |-> "cpu high"] >>] >>

FailStates ==
    {<< [service |-> "cloudwatch", kind |-> "dict", conf |-> CloudwatchConf],
        [service |-> "disk", kind |-> "list", conf |-> d],
        [service |-> "mongodb", kind |-> "dict", conf |-> MongoConf] >> : d \in DiskConfs}

SeqsUpTo(S, n) == UNION {[1..k -> S] : k \in 0..n}

\* a disk entry of a snapshot; NoValue: the entry has no percent
DiskEntry(partition, percent) ==
    IF percent = NoValue THEN [partition |-> partition]
    ELSE [partition |-> partition, percent |-> percent]

DiskLists == SeqsUpTo({DiskEntry(pt, v) : pt \in {"/", "/data"}, v \in DiskPercents}, MaxEntries)

\* the mongodb blob of a snapshot, with or without the configured metric
MongoBlobs == {[uptime |-> 7]} \cup {[uptime |-> 7, connections |-> v] : v \in {50, 150, 500}}

\* a snapshot of the agent: one blob with the services
AgentTasks == {<< << [disk |-> d, mongodb |-> g] >> >> : d \in DiskLists, g \in MongoBlobs}

\* a datapoint as fetch_metric and es_bulk_load build it
FetchMetricPoint(ts, v) == [Timestamp |-> ts, Value |-> v, Unit |-> "Percent"]

\* [[{"cloudwatch": aggregated["cloudwatch"]}]] of _process_host
CloudwatchTasks ==
    {<< << [cloudwatch |-> [cpu |-> series]] >> >> :
        series \in SeqsUpTo({FetchMetricPoint(ts, v) : ts \in 1..MaxEntries, v \in {50, 95}},
                            MaxEntries)}

IdleHost == [pc |-> "none", percent |-> 0, timestamp_ok |-> TRUE, cloudwatch |-> "none",
             failing |-> FALSE]
IdleCycle == [pc |-> "scan", final_response |-> {}]

\* the pages of monitoring_data are scanned and one task per ip is created
Dispatch ==
    /\ cycle.pc = "scan"
    /\ cycle' = [cycle EXCEPT !.pc = "gather"]
    /\ host' = [h \in HostIps |-> [IdleHost EXCEPT !.pc = "created"]]
    /\ UNCHANGED <<deriveVars, engineVars, statusVars, logVars, recVars, metricVars, scaleVars>>

\* _process_host up to its await of get_instance_metrics; the snapshot of the
\* host is the input
ProcessHostStart(h, percent, timestamp_ok) ==
    /\ host[h].pc = "created"
    /\ host' = [host EXCEPT ![h] =
          [@ EXCEPT !.pc = "metrics", !.percent = percent, !.timestamp_ok = timestamp_ok]]
    /\ UNCHANGED <<deriveVars, engineVars, statusVars, logVars, cycle, recVars, metricVars, scaleVars>>

\* the rest of _process_host, which has no await: the metrics (an exception of
\* get_instance_metrics is caught), the rules, the staleness check
ProcessHostRest(q, metrics_raised) ==
    LET check == HostStatusCheck(q.percent)
    IN [q EXCEPT !.cloudwatch = IF metrics_raised THEN "empty" ELSE "loaded",
                 !.pc = IF check.raised \/ ~q.timestamp_ok THEN "raised" ELSE "returned",
                 !.failing = ~check.raised /\ check.failing]

ProcessHostFinish(h, metrics_raised) ==
    /\ host[h].pc = "metrics"
    /\ host' = [host EXCEPT ![h] = ProcessHostRest(@, metrics_raised)]
    /\ UNCHANGED <<deriveVars, engineVars, statusVars, logVars, cycle, recVars, metricVars, scaleVars>>

\* asyncio.gather(*tasks, return_exceptions=False): the first exception of a
\* task is raised in cluster_status, which has no handler for it
GatherRaises ==
    /\ cycle.pc = "gather"
    /\ \E h \in HostIps : host[h].pc = "raised"
    /\ cycle' = [cycle EXCEPT !.pc = "raised"]
    /\ UNCHANGED <<deriveVars, engineVars, statusVars, logVars, host, recVars, metricVars, scaleVars>>

\* every task returned: the results are collected by ip
GatherReturns ==
    /\ cycle.pc = "gather"
    /\ \A h \in HostIps : host[h].pc = "returned"
    /\ cycle' = [cycle EXCEPT !.pc = "returned", !.final_response = HostIps]
    /\ UNCHANGED <<deriveVars, engineVars, statusVars, logVars, host, recVars, metricVars, scaleVars>>

(***************************************************************************)
(* get_instance_metrics: the cached series of ec2_metrics and the gap      *)
(* fetch from CloudWatch.  Timestamps are seconds; a point is identified   *)
(* by its timestamp.                                                       *)
(***************************************************************************)
Period == 300          \* period: int = 300
EsMaxHits == 10000     \* 'size': 10000 of build_msearch_body
BulkChunk == 500       \* chunk_size of es_bulk_index
NoCache == -1
MetricCallers == {"m1", "m2"}

\* METRICS.keys() followed by the labels of the volume of the instance
MetricLabels ==
    <<"cpu", "network_in", "network_out",
      "vol-1__VolumeReadBytes", "vol-1__VolumeWriteBytes",
      "vol-1__VolumeReadOps", "vol-1__VolumeWriteOps", "vol-1__VolumeIdleTime">>
LabelSet == Range(MetricLabels)

Min(a, b) == IF a <= b THEN a ELSE b

\* max(d["Timestamp"] for d in existing), over s[lo..hi]
RECURSIVE MaxOf(_, _, _)
MaxOf(s, lo, hi) ==
    IF lo = hi THEN s[lo]
    ELSE LET mid == (lo + hi) \div 2
             a == MaxOf(s, lo, mid)
             b == MaxOf(s, mid + 1, hi)
         IN IF a >= b THEN a ELSE b

\* one query of the msearch: the documents of the label in the window, sorted
\* by timestamp ascending, the first 'size' of them
EsSearchAll(label, start, end) ==
    SortSeq(SelectSeq(store[label], LAMBDA t : start <= t /\ t <= end),
            LAMBDA a, b : a < b)

EsSearch(label, start, end) ==
    LET hits == EsSearchAll(label, start, end)
    IN SubSeq(hits, 1, Min(Len(hits), EsMaxHits))

\* es_bulk_load: one msearch for all the labels
EsBulkLoad(start, end) == [l \in LabelSet |-> EsSearch(l, start, end)]

\* cw_client.get_metric_statistics, sorted by fetch_metric: one datapoint per
\* period with StartTime <= Timestamp < EndTime
CloudWatch(fetch_start, fetch_end) ==
    LET first == (fetch_start + Period - 1) \div Period
        limit == (fetch_end + Period - 1) \div Period
    IN [k \in 1..(IF limit > first THEN limit - first ELSE 0) |-> Period * (first + k - 1)]

\* fetch_start of one label
FetchStart(existing, start_time) ==
    IF existing # <<>> THEN MaxOf(existing, 1, Len(existing)) + Period ELSE start_time

IdleMetricCall ==
    [pc |-> "idle", start_time |-> 0, end_time |-> 0, active |-> FALSE, describe |-> "none",
     loaded |-> [l \in LabelSet |-> <<>>], results |-> [l \in LabelSet |-> <<>>],
     all_actions |-> <<>>, latest |-> [l \in LabelSet |-> NoCache]]

\* the error code of ec2_client.describe_instances, "none" when it returns
DescribeErrors == {"none", "InvalidInstanceID.NotFound", "UnauthorizedOperation"}

\* what follows describe_instances: the load, return {} ("empty"), or the
\* ClientError re-raised
AfterDescribeSwallowAll(error) == IF error = "none" THEN "load" ELSE "empty"

AfterDescribe(error) ==
    CASE error = "none" -> "load"
      [] error = "InvalidInstanceID.NotFound" -> "empty"
      [] OTHER -> "raised"

\* the call up to the describe_instances of the instance
MetricsStart(m, w, active, error) ==
    /\ mcall[m].pc = "idle"
    /\ mcall' = [mcall EXCEPT ![m] =
          [@ EXCEPT !.pc = AfterDescribe(error), !.start_time = w[1], !.end_time = w[2],
                    !.active = active, !.describe = error]]
    /\ UNCHANGED <<deriveVars, engineVars, statusVars, logVars, store, fetches, mwindows, recVars, clusterVars, scaleVars>>

\* loaded = await es_bulk_load(...); with it, for the record, the latest
\* timestamp the index holds for each label in the window
MetricsLoad(m) ==
    /\ mcall[m].pc = "load"
    /\ mcall' = [mcall EXCEPT
          ![m].pc = "merge",
          ![m].loaded = EsBulkLoad(mcall[m].start_time, mcall[m].end_time),
          ![m].latest = [l \in LabelSet |->
              LET all == EsSearchAll(l, mcall[m].start_time, mcall[m].end_time)
              IN IF all = <<>> THEN NoCache ELSE all[Len(all)]]]
    /\ UNCHANGED <<deriveVars, engineVars, statusVars, logVars, store, fetches, mwindows, recVars, clusterVars, scaleVars>>

\* new_pts of one label: the points of the gap with live fetching
NewPts(q, label) ==
    LET fetch_start == FetchStart(q.loaded[label], q.start_time)
    IN IF q.active /\ fetch_start < q.end_time
       THEN CloudWatch(fetch_start, q.end_time) ELSE <<>>

\* all_actions after the labels k.. of the two loops
RECURSIVE AllActions(_, _)
AllActions(q, k) ==
    IF k > Len(MetricLabels) THEN <<>>
    ELSE LET new_pts == NewPts(q, MetricLabels[k])
         IN [j \in 1..Len(new_pts) |-> [metric |-> MetricLabels[k], timestamp |-> new_pts[j]]]
            \o AllActions(q, k + 1)

\* the get_metric_statistics requests of the labels k.. of the two loops
RECURSIVE FetchRequests(_, _, _)
FetchRequests(q, m, k) ==
    IF k > Len(MetricLabels) THEN <<>>
    ELSE LET label == MetricLabels[k]
             fetch_start == FetchStart(q.loaded[label], q.start_time)
         IN (IF q.active /\ fetch_start < q.end_time
             THEN <<[by |-> m, metric |-> label,
                     StartTime |-> fetch_start, EndTime |-> q.end_time,
                     start_time |-> q.start_time, latest |-> q.latest[label]]>>
             ELSE <<>>)
            \o FetchRequests(q, m, k + 1)

\* the two loops over the labels, which read only what the call has loaded:
\* the cached points and, with live fetching, the points of the gap, queued
\* for indexing
MetricsMerge(m) ==
    /\ mcall[m].pc = "merge"
    /\ LET q == mcall[m]
           actions == AllActions(q, 1)
       IN /\ mcall' = [mcall EXCEPT
                ![m].results = [l \in LabelSet |-> q.loaded[l] \o NewPts(q, l)],
                ![m].all_actions = actions,
                ![m].pc = IF q.active /\ actions # <<>> THEN "index" ELSE "return"]
          /\ fetches' = fetches \o FetchRequests(q, m, 1)
    /\ UNCHANGED <<deriveVars, engineVars, statusVars, logVars, store, mwindows, recVars, clusterVars, scaleVars>>

\* es_bulk_index: one chunk of at most 500 actions
MetricsBulkIndex(m) ==
    /\ mcall[m].pc = "index"
    /\ LET q == mcall[m]
           n == Min(Len(q.all_actions), BulkChunk)
           chunk == SubSeq(q.all_actions, 1, n)
           rest == SubSeq(q.all_actions, n + 1, Len(q.all_actions))
       IN /\ store' = [l \in LabelSet |->
                LET mine == SelectSeq(chunk, LAMBDA a : a.metric = l)
                IN store[l] \o [j \in 1..Len(mine) |-> mine[j].timestamp]]
          /\ mcall' = [mcall EXCEPT ![m].all_actions = rest,
                                    ![m].pc = IF rest = <<>> THEN "return" ELSE "index"]
    /\ UNCHANGED <<deriveVars, engineVars, statusVars, logVars, fetches, mwindows, recVars, clusterVars, scaleVars>>

\* return results
MetricsReturn(m) ==
    /\ mcall[m].pc = "return"
    /\ mcall' = [mcall EXCEPT ![m].pc = "done"]
    /\ UNCHANGED <<deriveVars, engineVars, statusVars, logVars, store, fetches, mwindows, recVars, clusterVars, scaleVars>>

(***************************************************************************)
(* log_to_elasticsearch and append_step as separate requests to the index, *)
(* for writers that share one document id.                                 *)
(***************************************************************************)
LogWriters == {"w1", "w2"}
IdleWriter == [pc |-> "idle", found |-> FALSE, ops |-> 0]
NoWriters == [w \in LogWriters |-> IdleWriter]

\* base_doc of log_to_elasticsearch
BaseDoc(instance_id) ==
    [found |-> TRUE, instance_id |-> instance_id, status |-> "in_progress",
     steps |-> <<>>, lastUpdated |-> NoTime]

\* es_client.index(index, id, document): the document replaces what the id held
EsIndex(doc, document) == document

\* es_client.update with 'doc': {} and 'doc_as_upsert': True
EsUpdateDocAsUpsert(doc) ==
    IF doc.found THEN doc
    ELSE [found |-> TRUE, instance_id |-> "none", status |-> "none",
          steps |-> <<>>, lastUpdated |-> NoTime]

\* es_client.update with the script of append_step and no upsert: a missing
\* document is an error (document_missing_exception)
EsScriptedUpdate(doc, step, t) ==
    IF doc.found THEN [ok |-> TRUE, doc |-> AppendStep(doc, step, t)]
    ELSE [ok |-> FALSE, doc |-> doc]

\* log_to_elasticsearch: doc = await es_client.get(...)
WriterGet(w) ==
    /\ writer[w].pc = "idle"
    /\ writer[w].ops < MaxWriterOps
    /\ writer' = [writer EXCEPT ![w] = [pc |-> "got", found |-> ldoc.found, ops |-> @.ops + 1]]
    /\ UNCHANGED <<deriveVars, engineVars, statusVars, ldoc, appended, missing, scaleVars, recVars, metricVars, clusterVars>>

\* log_to_elasticsearch: if not doc.get('found'): await es_client.index(...)
WriterIndex(w) ==
    /\ writer[w].pc = "got"
    /\ ldoc' = IF writer[w].found THEN ldoc ELSE EsIndex(ldoc, BaseDoc("i1"))
    /\ writer' = [writer EXCEPT ![w].pc = "update"]
    /\ UNCHANGED <<deriveVars, engineVars, statusVars, appended, missing, scaleVars, recVars, metricVars, clusterVars>>

\* log_to_elasticsearch: await es_client.update(... 'doc_as_upsert': True)
WriterUpdate(w) ==
    /\ writer[w].pc = "update"
    /\ ldoc' = EsUpdateDocAsUpsert(ldoc)
    /\ writer' = [writer EXCEPT ![w].pc = "idle"]
    /\ UNCHANGED <<deriveVars, engineVars, statusVars, appended, missing, scaleVars, recVars, metricVars, clusterVars>>

\* append_step(doc_id, step, percent): the step is named after its writer
WriterAppend(w) ==
    /\ writer[w].pc = "idle"
    /\ writer[w].ops < MaxWriterOps
    /\ LET step == Step(w, writer[w].ops, "in_progress", "")
           r == EsScriptedUpdate(ldoc, step, now)
       IN /\ ldoc' = r.doc
          /\ appended' = IF r.ok THEN Append(appended, step) ELSE appended
          /\ missing' = IF r.ok THEN missing ELSE missing \cup {step}
    /\ writer' = [writer EXCEPT ![w].ops = @ + 1]
    /\ UNCHANGED <<deriveVars, engineVars, statusVars, scaleVars, recVars, metricVars, clusterVars>>

(***************************************************************************)
(* Initial contents of ec2_metrics and the windows asked for.              *)
(***************************************************************************)
\* a series with one point per period from 0 to T
CachedUpTo(T) == [k \in 1..(IF T < 0 THEN 0 ELSE T \div Period + 1) |-> Period * (k - 1)]

\* the last timestamp of a series that holds more points than one search returns
LongSeriesEnd == Period * (EsMaxHits + 1)

SmallWindows ==
    {<<s, Period * k>> : s \in {0, Period}, k \in 2..MaxSamples}

MetricScenarios ==
    {[store |-> [l \in LabelSet |-> CachedUpTo(T)], windows |-> SmallWindows] :
        T \in {-1, Period, 2 * Period}}
    \cup
    {[store |-> [l \in LabelSet |-> IF l = "cpu" THEN CachedUpTo(2 * Period)
                                    ELSE IF l = "network_in" THEN CachedUpTo(Period)
                                    ELSE <<>>],
      windows |-> SmallWindows]}
    \cup
    {[store |-> [l \in LabelSet |-> CachedUpTo(LongSeriesEnd)],
      windows |-> {<<0, LongSeriesEnd>>}]}

EmptyStore == [l \in LabelSet |-> <<>>]
NoMetricCalls == [m \in MetricCallers |-> IdleMetricCall]
NoHosts == [h \in HostIps |-> IdleHost]

(***************************************************************************)
(* Specifications.  Each runs one part of the program; the other parts     *)
(* stay as constructed.                                                    *)
(***************************************************************************)
\* two confirm requests, the clock, control calls that may raise
InitScale ==
    /\ now = 0 /\ logs = NoLogs /\ recs = OneRecEach /\ req = NoReqs
    /\ calls = NoCalls /\ gateLog = NoGateLog /\ cancelMark = NoMarks /\ faults = 0
    /\ recCall = NoRecCalls /\ recCalls = 0
    /\ store = EmptyStore /\ mcall = NoMetricCalls /\ fetches = <<>> /\ mwindows = {}
    /\ cycle = IdleCycle /\ host = NoHosts
    /\ ldoc = NoDoc /\ writer = NoWriters /\ appended = <<>> /\ missing = {}
    /\ fail_state = NoRules /\ tasks = <<>> /\ final_result = NoResult
    /\ type_specs = NoSpecs /\ rlog = {}
    /\ results = NoSeries

NextScale ==
    \/ \E r \in Reqs, i \in Targets : Confirm(r, i)
    \/ \E r \in Reqs : GateCheck(r)
    \/ \E r \in Reqs : Respond(r)
    \/ \E r \in Reqs : BgCreateLog(r)
    \/ \E r \in Reqs : BgInitStep(r)
    \/ \E r \in Reqs : BgDeleteRec(r)
    \/ \E r \in Reqs : AppendProgress(r)
    \/ \E r \in Reqs : ApiReturns(r)
    \/ \E r \in Reqs : ApiRaises(r)
    \/ \E r \in Reqs : HandleFailure(r)
    \/ Tick

SpecScale == InitScale /\ [][NextScale]_vars

\* one confirm request, the clock, control calls that may raise, and the
\* external writer that cancels a log
NextResize ==
    \/ \E i \in Targets : Confirm("r1", i)
    \/ \E r \in Reqs : GateCheck(r)
    \/ \E r \in Reqs : Respond(r)
    \/ \E r \in Reqs : BgCreateLog(r)
    \/ \E r \in Reqs : BgInitStep(r)
    \/ \E r \in Reqs : BgDeleteRec(r)
    \/ \E r \in Reqs : AppendProgress(r)
    \/ \E r \in Reqs : ApiReturns(r)
    \/ \E r \in Reqs : ApiRaises(r)
    \/ \E r \in Reqs : HandleFailure(r)
    \/ \E d \in DocIds : Cancel(d)
    \/ Tick

SpecResize == InitScale /\ [][NextResize]_vars

\* concurrent scale_recommendation calls on an empty recommendation index
InitRec ==
    /\ now = 0 /\ logs = NoLogs /\ recs = NoRecs /\ req = NoReqs
    /\ calls = NoCalls /\ gateLog = NoGateLog /\ cancelMark = NoMarks /\ faults = 0
    /\ recCall = NoRecCalls /\ recCalls = 0
    /\ store = EmptyStore /\ mcall = NoMetricCalls /\ fetches = <<>> /\ mwindows = {}
    /\ cycle = IdleCycle /\ host = NoHosts
    /\ ldoc = NoDoc /\ writer = NoWriters /\ appended = <<>> /\ missing = {}
    /\ fail_state = NoRules /\ tasks = <<>> /\ final_result = NoResult
    /\ type_specs = NoSpecs /\ rlog = {}
    /\ results = NoSeries

NextRec ==
    \/ \E c \in RecCallers, target \in RecTargets : RecDelete(c, target)
    \/ \E c \in RecCallers : RecStatus(c)
    \/ \E c \in RecCallers : RecIndex(c)

SpecRec == InitRec /\ [][NextRec]_vars

\* get_instance_metrics calls on one of the initial contents of ec2_metrics
InitMetrics ==
    /\ now = 0 /\ logs = NoLogs /\ recs = NoRecs /\ req = NoReqs
    /\ calls = NoCalls /\ gateLog = NoGateLog /\ cancelMark = NoMarks /\ faults = 0
    /\ recCall = NoRecCalls /\ recCalls = 0
    /\ \E sc \in MetricScenarios : store = sc.store /\ mwindows = sc.windows
    /\ mcall = NoMetricCalls /\ fetches = <<>>
    /\ cycle = IdleCycle /\ host = NoHosts
    /\ ldoc = NoDoc /\ writer = NoWriters /\ appended = <<>> /\ missing = {}
    /\ fail_state = NoRules /\ tasks = <<>> /\ final_result = NoResult
    /\ type_specs = NoSpecs /\ rlog = {}
    /\ results = NoSeries

NextMetrics ==
    \/ \E m \in MetricCallers, w \in mwindows, active \in BOOLEAN, error \in DescribeErrors :
          MetricsStart(m, w, active, error)
    \/ \E m \in MetricCallers : MetricsLoad(m)
    \/ \E m \in MetricCallers : MetricsMerge(m)
    \/ \E m \in MetricCallers : MetricsBulkIndex(m)
    \/ \E m \in MetricCallers : MetricsReturn(m)

SpecMetrics == InitMetrics /\ [][NextMetrics]_vars

\* one cluster_status cycle over the fleet
InitCluster ==
    /\ now = 0 /\ logs = NoLogs /\ recs = NoRecs /\ req = NoReqs
    /\ calls = NoCalls /\ gateLog = NoGateLog /\ cancelMark = NoMarks /\ faults = 0
    /\ recCall = NoRecCalls /\ recCalls = 0
    /\ store = EmptyStore /\ mcall = NoMetricCalls /\ fetches = <<>> /\ mwindows = {}
    /\ cycle = IdleCycle /\ host = NoHosts
    /\ ldoc = NoDoc /\ writer = NoWriters /\ appended = <<>> /\ missing = {}
    /\ fail_state = NoRules /\ tasks = <<>> /\ final_result = NoResult
    /\ type_specs = NoSpecs /\ rlog = {}
    /\ results = NoSeries

NextCluster ==
    \/ Dispatch
    \/ \E h \in HostIps, percent \in DiskPercents, timestamp_ok \in BOOLEAN :
          ProcessHostStart(h, percent, timestamp_ok)
    \/ \E h \in HostIps, metrics_raised \in BOOLEAN : ProcessHostFinish(h, metrics_raised)
    \/ GatherRaises
    \/ GatherReturns

SpecCluster == InitCluster /\ [][NextCluster]_vars

\* writers of one status log document, from an index without it
InitLog ==
    /\ now = 0 /\ logs = NoLogs /\ recs = NoRecs /\ req = NoReqs
    /\ calls = NoCalls /\ gateLog = NoGateLog /\ cancelMark = NoMarks /\ faults = 0
    /\ recCall = NoRecCalls /\ recCalls = 0
    /\ store = EmptyStore /\ mcall = NoMetricCalls /\ fetches = <<>> /\ mwindows = {}
    /\ cycle = IdleCycle /\ host = NoHosts
    /\ ldoc = NoDoc /\ writer = NoWriters /\ appended = <<>> /\ missing = {}
    /\ fail_state = NoRules /\ tasks = <<>> /\ final_result = NoResult
    /\ type_specs = NoSpecs /\ rlog = {}
    /\ results = NoSeries

NextLog ==
    \/ \E w \in LogWriters : WriterGet(w)
    \/ \E w \in LogWriters : WriterIndex(w)
    \/ \E w \in LogWriters : WriterUpdate(w)
    \/ \E w \in LogWriters : WriterAppend(w)

SpecLog == InitLog /\ [][NextLog]_vars

(***************************************************************************)
(* instance_usage_measurement.py: recommend_instance.                      *)
(***************************************************************************)
cpu_upper == 75
cpu_lower == 25
swap_upper == 75
swap_lower == 25
net_upper == 75
net_lower == 25

\* what EC2 describe_instance_types answers for the types of the region
Ec2Types ==
    ("m5.large" :> [family |-> "m5", vcpus |-> 2, memory_mib |-> 8192, architectures |-> {"x86_64"}])
    @@ ("m5.xlarge" :> [family |-> "m5", vcpus |-> 4, memory_mib |-> 16384, architectures |-> {"x86_64"}])
    @@ ("m5.2xlarge" :> [family |-> "m5", vcpus |-> 8, memory_mib |-> 32768, architectures |-> {"x86_64"}])
    @@ ("c5.large" :> [family |-> "c5", vcpus |-> 2, memory_mib |-> 4096, architectures |-> {"x86_64"}])

\* the order in which the paginator of describe_instance_types lists them
Ec2Listing == <<"m5.2xlarge", "c5.large", "m5.large", "m5.xlarge">>

\* specs built from the answer of describe_instance_types
Describe(instance_type) ==
    [vcpus |-> Ec2Types[instance_type].vcpus,
     memory_mib |-> Ec2Types[instance_type].memory_mib,
     architectures |-> Ec2Types[instance_type].architectures]

\* a cache that does not look at its key
GetInstanceSpecsUnkeyed(cache, instance_type) ==
    IF DOMAIN cache # {} THEN cache[CHOOSE it \in DOMAIN cache : TRUE] ELSE Describe(instance_type)

\* get_instance_specs: the cached specs, or the answer of EC2
GetInstanceSpecs(cache, instance_type) ==
    IF instance_type \in DOMAIN cache THEN cache[instance_type] ELSE Describe(instance_type)

\* type_specs after get_instance_specs was called for the types looked
Remember(cache, looked) ==
    [it \in DOMAIN cache \cup looked |-> GetInstanceSpecs(cache, it)]

\* list_instance_types: the listed types that start with "<family>."
ListInstanceTypes(family_prefix) ==
    SelectSeq(Ec2Listing, LAMBDA it : Ec2Types[it].family = family_prefix)

\* get_dynamic_itil_swap: ceil(memory_mib * (1 + exp(-memory_mib / 16384))),
\* tabulated at the memory sizes of the types above
GetDynamicItilSwap(memory_mib) ==
    CASE memory_mib = 4096 -> 7286
      [] memory_mib = 8192 -> 13161
      [] memory_mib = 16384 -> 22412
      [] memory_mib = 32768 -> 37203

CeilDiv(a, b) == (a + b - 1) \div b
Max(a, b) == IF a >= b THEN a ELSE b

RECURSIVE Sum(_)
Sum(vals) == IF vals = << >> THEN 0 ELSE vals[1] + Sum(Tail(vals))

\* statistics.mean of the values (the series used have an integral mean)
Mean(vals) == Sum(vals) \div Len(vals)

\* _mean_cpu_pct
MeanCpuPct(vals) ==
    IF vals = << >> THEN 0
    ELSE IF Mean(vals) <= 1 THEN Mean(vals) * 100 ELSE Mean(vals)

\* the key of sorted(): (vcpus, memory_mib)
KeyLess(cache, a, b) ==
    LET sa == GetInstanceSpecs(cache, a)
        sb == GetInstanceSpecs(cache, b)
    IN \/ sa.vcpus < sb.vcpus
       \/ sa.vcpus = sb.vcpus /\ sa.memory_mib < sb.memory_mib

\* sorted(): stable, ascending in the key
RECURSIVE Sorted(_, _)
Sorted(cache, types) ==
    IF types = << >> THEN << >>
    ELSE LET init == Sorted(cache, SubSeq(types, 1, Len(types) - 1))
             x == types[Len(types)]
             k == Cardinality({i \in 1..Len(init) : ~KeyLess(cache, x, init[i])})
         IN SubSeq(init, 1, k) \o <<x>> \o SubSeq(init, k + 1, Len(init))

\* cands: the types of the family that share an architecture with the current one
Cands(cache, current) ==
    LET arch_curr == GetInstanceSpecs(cache, current).architectures
    IN Sorted(cache,
              SelectSeq(ListInstanceTypes(Ec2Types[current].family),
                        LAMBDA it : arch_curr \cap GetInstanceSpecs(cache, it).architectures # {}))

\* pick_smallest that looks at the vCPUs only
PickSmallestByCpu(cache, cands, v_need, m_need) ==
    LET fits == {i \in 1..Len(cands) : GetInstanceSpecs(cache, cands[i]).vcpus >= v_need}
    IN IF fits # {} THEN cands[CHOOSE i \in fits : \A j \in fits : i <= j]
       ELSE cands[Len(cands)]

\* pick_smallest
PickSmallest(cache, cands, v_need, m_need) ==
    LET fits == {i \in 1..Len(cands) :
                    /\ GetInstanceSpecs(cache, cands[i]).vcpus >= v_need
                    /\ GetInstanceSpecs(cache, cands[i]).memory_mib >= m_need}
    IN IF fits # {} THEN cands[CHOOSE i \in fits : \A j \in fits : i <= j]
       ELSE cands[Len(cands)]

\* _cmp_size
CmpSize(cache, a, b) ==
    LET sa == GetInstanceSpecs(cache, a)
        sb == GetInstanceSpecs(cache, b)
    IN IF sa.vcpus # sb.vcpus
       THEN (IF sa.vcpus > sb.vcpus THEN 1 ELSE -1)
       ELSE IF sa.memory_mib > sb.memory_mib THEN 1
       ELSE IF sa.memory_mib < sb.memory_mib THEN -1 ELSE 0

\* a target that is fitted to the load whenever the host is not over
TargetNoHysteresis(over, under, current, up, down) ==
    IF over THEN up ELSE down

\* target = current; if over: ...; elif under: ...
Target(over, under, current, up, down) ==
    IF over THEN up ELSE IF under THEN down ELSE current

\* recommend_instance(host) with the cache as it is: its locals and its result
RecommendInstance(cache, h) ==
    LET current == h.InstanceType
        specs == GetInstanceSpecs(cache, current)
        total_ram_mib == specs.memory_mib
        cpu_pct == MeanCpuPct(h.cpu)
        req_vcpus == Max(1, CeilDiv(specs.vcpus * cpu_pct * 2, 100))
        used_swap_mib == h.swap_used
        configured_swap_mib == h.swap_total
        rec_swap_mib == GetDynamicItilSwap(total_ram_mib)
        effective_swap_mib ==
            IF configured_swap_mib # 0 THEN Min(rec_swap_mib, configured_swap_mib)
            ELSE rec_swap_mib
        net_pct == IF h.network_total_pct = << >> THEN 0 ELSE Mean(h.network_total_pct)
        cands == Cands(cache, current)
        \* swap_pct = used / configured * 100 when swap is configured, else 0
        over == \/ cpu_pct > cpu_upper
                \/ configured_swap_mib # 0 /\ used_swap_mib * 100 > swap_upper * configured_swap_mib
                \/ net_pct > net_upper
        under == /\ cpu_pct < cpu_lower
                 /\ \/ configured_swap_mib = 0
                    \/ used_swap_mib * 100 < swap_lower * configured_swap_mib
                 /\ net_pct < net_lower
        required_ram_up ==
            IF configured_swap_mib # 0
            THEN Max(CeilDiv(used_swap_mib * 100, swap_upper) - configured_swap_mib, total_ram_mib)
            ELSE total_ram_mib
        req_mem_up == required_ram_up + effective_swap_mib
        req_mem_min == h.mem_used + effective_swap_mib
        target == Target(over, under, current,
                         PickSmallest(cache, cands, req_vcpus, req_mem_up),
                         PickSmallest(cache, cands, req_vcpus, req_mem_min))
        cmp == CmpSize(cache, target, current)
    IN [host |-> h, cached |-> DOMAIN cache,
        cpu_pct |-> cpu_pct, net_pct |-> net_pct, over |-> over, under |-> under,
        req_vcpus |-> req_vcpus, req_mem_up |-> req_mem_up, req_mem_min |-> req_mem_min,
        rec_swap_mib |-> rec_swap_mib, effective_swap_mib |-> effective_swap_mib, cands |-> cands,
        NewInstanceType |-> target, changed |-> cmp # 0,
        action |-> CASE cmp = 1 -> "up" [] cmp = -1 -> "down" [] OTHER -> "none"]

\* the load summaries the engine is evaluated on
Hosts ==
    [InstanceType : {"m5.large", "m5.xlarge"},
     cpu : {<< >>, <<1>>, <<40, 60>>, <<90>>},
     swap : {<<0, 0>>, <<1024, 2048>>, <<1900, 2048>>},
     network_total_pct : {<< >>, <<50>>, <<90>>},
     mem_used : {1024}]

\* the host as recommend_instance reads it: the swap partition of its disk
HostOf(x) ==
    [InstanceType |-> x.InstanceType, cpu |-> x.cpu, swap_used |-> x.swap[1],
     swap_total |-> x.swap[2], network_total_pct |-> x.network_total_pct,
     mem_used |-> x.mem_used]

\* one call of recommend_instance; every type it looks up ends in the cache
Recommend(h) ==
    /\ Cardinality(rlog) < MaxEvals
    /\ LET r == RecommendInstance(type_specs, h)
       IN /\ rlog' = rlog \cup {r}
          /\ type_specs' = Remember(type_specs,
                                    {h.InstanceType} \cup Range(ListInstanceTypes(Ec2Types[h.InstanceType].family)))
    /\ UNCHANGED <<deriveVars, statusVars, logVars, scaleVars, recVars, metricVars, clusterVars>>

(***************************************************************************)
(* monitoring_status.py: the network totals of get_instance_metrics.       *)
(***************************************************************************)
\* {d["Timestamp"]: d for d in series}: the last point of a timestamp stays
TsMap(series) ==
    [ts \in {series[i].Timestamp : i \in 1..Len(series)} |->
        series[CHOOSE i \in 1..Len(series) :
                   /\ series[i].Timestamp = ts
                   /\ \A j \in (i + 1)..Len(series) : series[j].Timestamp # ts]]

\* sorted() of a set of timestamps
RECURSIVE SortedTs(_)
SortedTs(S) ==
    IF S = {} THEN << >>
    ELSE LET least == CHOOSE ts \in S : \A other \in S : ts <= other
         IN <<least>> \o SortedTs(S \ {least})

\* round(n / d, 0) of Python: the nearest integer, a tie goes to the even one
Round(n, d) ==
    LET q == n \div d
        r == n % d
    IN IF 2 * r < d THEN q
       ELSE IF 2 * r > d THEN q + 1
       ELSE IF q % 2 = 0 THEN q ELSE q + 1

\* totals that pair the points of the two series by their position
NetworkTotalByPosition(network_in, network_out) ==
    [k \in 1..Min(Len(network_in), Len(network_out)) |->
        [Timestamp |-> network_in[k].Timestamp,
         Value |-> network_in[k].Value + network_out[k].Value,
         Unit |-> "Bytes"]]

\* total_raw: a point for each common timestamp, the sum of the two values
NetworkTotal(network_in, network_out) ==
    LET in_map == TsMap(network_in)
        out_map == TsMap(network_out)
        common_ts == SortedTs(DOMAIN in_map \cap DOMAIN out_map)
    IN [k \in 1..Len(common_ts) |->
           [Timestamp |-> common_ts[k],
            Value |-> in_map[common_ts[k]].Value + out_map[common_ts[k]].Value,
            Unit |-> "Bytes"]]

\* total_pct: round(s * 8 / bw_bps * 100, 3), kept in thousandths of a percent
NetworkTotalPct(total_raw, bw_bps) ==
    [k \in 1..Len(total_raw) |->
        [Timestamp |-> total_raw[k].Timestamp,
         Value |-> Round(total_raw[k].Value * 8 * 100 * 1000, bw_bps),
         Unit |-> "Percent"]]

\* step 4 of get_instance_metrics on the merged series
DeriveNetworkTotals ==
    /\ results.pc = "merged"
    /\ results' =
          IF results.network_in # << >> /\ results.network_out # << >>
          THEN LET total_raw == NetworkTotal(results.network_in, results.network_out)
                   base == [pc |-> "derived", bw_bps |-> results.bw_bps,
                            network_in |-> results.network_in,
                            network_out |-> results.network_out,
                            network_total |-> total_raw]
               IN IF results.bw_bps # 0 /\ total_raw # << >>
                  THEN [pc |-> "derived", bw_bps |-> results.bw_bps,
                        network_in |-> results.network_in,
                        network_out |-> results.network_out,
                        network_total |-> total_raw,
                        network_total_pct |-> NetworkTotalPct(total_raw, results.bw_bps)]
                  ELSE base
          ELSE [results EXCEPT !.pc = "derived"]
    /\ UNCHANGED <<engineVars, statusVars, logVars, scaleVars, recVars, metricVars, clusterVars>>

\* a series as the merge leaves it: points in non-decreasing timestamp order
BytesPoint(ts, v) == [Timestamp |-> ts, Value |-> v, Unit |-> "Bytes"]
NetSeries ==
    {s \in SeqsUpTo({BytesPoint(ts, v) : ts \in 1..(MaxEntries + 1), v \in {50, 100}}, MaxEntries) :
        \A i \in 1..(Len(s) - 1) : s[i].Timestamp <= s[i + 1].Timestamp}

\* the baseline bandwidth of the instance type in bits per second; 0: none
Bandwidths == {0, 64000}

\* one evaluation of server_status_check on some rules and some snapshots
InitStatus ==
    /\ now = 0 /\ logs = NoLogs /\ recs = NoRecs /\ req = NoReqs
    /\ calls = NoCalls /\ gateLog = NoGateLog /\ cancelMark = NoMarks /\ faults = 0
    /\ recCall = NoRecCalls /\ recCalls = 0
    /\ store = EmptyStore /\ mcall = NoMetricCalls /\ fetches = <<>> /\ mwindows = {}
    /\ cycle = IdleCycle /\ host = NoHosts
    /\ ldoc = NoDoc /\ writer = NoWriters /\ appended = <<>> /\ missing = {}
    /\ fail_state \in FailStates /\ tasks \in AgentTasks \cup CloudwatchTasks /\ final_result = NoResult
    /\ type_specs = NoSpecs /\ rlog = {}
    /\ results = NoSeries

NextStatus == StatusCheck

SpecStatus == InitStatus /\ [][NextStatus]_vars

\* evaluations of recommend_instance by one process, the cache empty at first
InitRecommend ==
    /\ now = 0 /\ logs = NoLogs /\ recs = NoRecs /\ req = NoReqs
    /\ calls = NoCalls /\ gateLog = NoGateLog /\ cancelMark = NoMarks /\ faults = 0
    /\ recCall = NoRecCalls /\ recCalls = 0
    /\ store = EmptyStore /\ mcall = NoMetricCalls /\ fetches = <<>> /\ mwindows = {}
    /\ cycle = IdleCycle /\ host = NoHosts
    /\ ldoc = NoDoc /\ writer = NoWriters /\ appended = <<>> /\ missing = {}
    /\ fail_state = NoRules /\ tasks = <<>> /\ final_result = NoResult
    /\ type_specs = NoSpecs /\ rlog = {}
    /\ results = NoSeries

NextRecommend == \E x \in Hosts : Recommend(HostOf(x))

SpecRecommend == InitRecommend /\ [][NextRecommend]_vars

\* the derivation on some merged series of network_in and network_out
InitDerive ==
    /\ now = 0 /\ logs = NoLogs /\ recs = NoRecs /\ req = NoReqs
    /\ calls = NoCalls /\ gateLog = NoGateLog /\ cancelMark = NoMarks /\ faults = 0
    /\ recCall = NoRecCalls /\ recCalls = 0
    /\ store = EmptyStore /\ mcall = NoMetricCalls /\ fetches = <<>> /\ mwindows = {}
    /\ cycle = IdleCycle /\ host = NoHosts
    /\ ldoc = NoDoc /\ writer = NoWriters /\ appended = <<>> /\ missing = {}
    /\ fail_state = NoRules /\ tasks = <<>> /\ final_result = NoResult
    /\ type_specs = NoSpecs /\ rlog = {}
    /\ results \in {[pc |-> "merged", bw_bps |-> bw, network_in |-> i, network_out |-> o] :
                      bw \in Bandwidths, i \in NetSeries, o \in NetSeries}

NextDerive == DeriveNetworkTotals

SpecDerive == InitDerive /\ [][NextDerive]_vars

\* one confirm request whose handler and background task keep running: every
\* await of the task completes and every control call returns or raises
InitConfirm ==
    /\ now = 0 /\ logs = NoLogs /\ recs = OneRecEach /\ req = NoReqs
    /\ calls = NoCalls /\ gateLog = NoGateLog /\ cancelMark = NoMarks /\ faults = 0
    /\ recCall = NoRecCalls /\ recCalls = 0
    /\ store = EmptyStore /\ mcall = NoMetricCalls /\ fetches = <<>> /\ mwindows = {}
    /\ cycle = IdleCycle /\ host = NoHosts
    /\ ldoc = NoDoc /\ writer = NoWriters /\ appended = <<>> /\ missing = {}
    /\ fail_state = NoRules /\ tasks = <<>> /\ final_result = NoResult
    /\ type_specs = NoSpecs /\ rlog = {}
    /\ results = NoSeries

NextConfirm ==
    \/ \E i \in Targets : Confirm("r1", i)
    \/ \E r \in Reqs : GateCheck(r)
    \/ \E r \in Reqs : Respond(r)
    \/ \E r \in Reqs : BgCreateLog(r)
    \/ \E r \in Reqs : BgInitStep(r)
    \/ \E r \in Reqs : BgDeleteRec(r)
    \/ \E r \in Reqs : AppendProgress(r)
    \/ \E r \in Reqs : ApiReturns(r)
    \/ \E r \in Reqs : ApiRaises(r)
    \/ \E r \in Reqs : HandleFailure(r)
    \/ Tick

\* the steps of a request once it is made
RequestStep(r) ==
    \/ GateCheck(r) \/ Respond(r)
    \/ BgCreateLog(r) \/ BgInitStep(r) \/ BgDeleteRec(r)
    \/ AppendProgress(r) \/ ApiReturns(r) \/ ApiRaises(r) \/ HandleFailure(r)

SpecConfirmFair ==
    InitConfirm /\ [][NextConfirm]_vars /\ \A r \in Reqs : WF_vars(RequestStep(r))

\* a resize and a fleet cycle on the event loop of one process: the control
\* calls and waiters of ec2_scaling.py are plain calls inside coroutines, so
\* the thread of the loop is inside them from their start to their return
LoopFree == \A r \in Reqs : req[r].pc \notin ApiPcs

InitLoop ==
    /\ now = 0 /\ logs = NoLogs /\ recs = OneRecEach /\ req = NoReqs
    /\ calls = NoCalls /\ gateLog = NoGateLog /\ cancelMark = NoMarks /\ faults = 0
    /\ recCall = NoRecCalls /\ recCalls = 0
    /\ store = EmptyStore /\ mcall = NoMetricCalls /\ fetches = <<>> /\ mwindows = {}
    /\ cycle = IdleCycle /\ host = NoHosts
    /\ ldoc = NoDoc /\ writer = NoWriters /\ appended = <<>> /\ missing = {}
    /\ fail_state = NoRules /\ tasks = <<>> /\ final_result = NoResult
    /\ type_specs = NoSpecs /\ rlog = {}
    /\ results = NoSeries

NextLoop ==
    \/ Confirm("r1", "i1")
    \/ \E r \in Reqs : GateCheck(r)
    \/ \E r \in Reqs : Respond(r)
    \/ \E r \in Reqs : BgCreateLog(r)
    \/ \E r \in Reqs : BgInitStep(r)
    \/ \E r \in Reqs : BgDeleteRec(r)
    \/ \E r \in Reqs : AppendProgress(r)
    \/ \E r \in Reqs : ApiReturns(r)
    \/ \E r \in Reqs : ApiRaises(r)
    \/ \E r \in Reqs : HandleFailure(r)
    \/ LoopFree /\ Dispatch
    \/ LoopFree /\ \E h \in HostIps, percent \in {NoValue, 80} : ProcessHostStart(h, percent, TRUE)
    \/ LoopFree /\ \E h \in HostIps, metrics_raised \in BOOLEAN : ProcessHostFinish(h, metrics_raised)
    \/ LoopFree /\ GatherRaises
    \/ LoopFree /\ GatherReturns

SpecLoop == InitLoop /\ [][NextLoop]_vars

(***************************************************************************)
(* Properties of the safety gate and of the confirm response.              *)
(***************************************************************************)
\* the running instances that share the group tag value, project,
\* environment, region, program and instance type of instance i
Peers(i) ==
    {j \in Instances :
        /\ MonitoringData[j].State = "running"
        /\ \A f \in {"GroupTag", "Project", "Environment", "Region", "Program", "InstanceType"} :
              MonitoringData[j][f] = MonitoringData[i][f]}

\* the gate applies to the instance request r names, and r is past it
GateDone(r) ==
    /\ req[r].pc \notin {"idle", "gate"}
    /\ req[r].status_code # 404
    /\ MonitoringData[req[r].instance_id].AsgName = NoTag
    /\ \E e \in 1..Len(Environments) : EnvMatches(MonitoringData[req[r].instance_id], Environments[e])

Verdicts(r) == {gateLog[r][k] : k \in 1..Len(gateLog[r])}

\* request r has started a resize of instance i: a status log or a control call
ResizeStarted(r, i) == logs[<<r, i>>].found \/ calls[<<r, i>>] # <<>>

Resizing(r, i) ==
    /\ logs[<<r, i>>].found
    /\ logs[<<r, i>>].status = "in_progress"
    /\ calls[<<r, i>>] # <<>>

\* C2: two confirm requests never both classify the same instance safe and
\* both resize it at the same time.
C2_NoConcurrentResize ==
    \A i \in Instances : \A r1, r2 \in Reqs :
        (r1 # r2 /\ i \in Range(req[r1].safe_to_scale) /\ i \in Range(req[r2].safe_to_scale))
        => ~(Resizing(r1, i) /\ Resizing(r2, i))

\* the names the response has to report as blocked: one per unsafe verdict, in
\* the order of the verdicts
UnsafeNames(r) ==
    LET unsafe == SelectSeq(gateLog[r], LAMBDA v : ~v.safe)
    IN [k \in 1..Len(unsafe) |-> HitName(unsafe[k].id)]

\* C9: when the gate classified a member unsafe, the response carries the
\* blocking message with the name of every unsafe member; when no member is
\* safe the response is a 403 and the request starts no resize.
C9_UnsafeReported ==
    \A r \in Reqs :
        (GateDone(r) /\ UnsafeNames(r) # <<>>) =>
            /\ \E k \in 1..Len(req[r].final_message) :
                  /\ req[r].final_message[k].kind = "blocked"
                  /\ req[r].final_message[k].names = UnsafeNames(r)
            /\ (\A v \in Verdicts(r) : ~v.safe) =>
                  /\ req[r].status_code = 403
                  /\ \A i \in Instances : ~ResizeStarted(r, i)

\* a response that reports two blocked members, one without a name, as a 403
C9_Witness ==
    \E r \in Reqs :
        /\ GateDone(r)
        /\ req[r].status_code = 403
        /\ Len(UnsafeNames(r)) = 2
        /\ req[r].final_message = <<[kind |-> "blocked", names |-> UnsafeNames(r)]>>

(***************************************************************************)
(* Properties of scale_instance's journal.                                 *)
(***************************************************************************)
IsPrefix(s, t) == Len(s) <= Len(t) /\ \A k \in 1..Len(s) : s[k] = t[k]

\* the journal of a resize whose calls all succeed, after the step of the
\* background task, and its control calls
FullJournal ==
    << Step("Scale operation initiated", 0, "in_progress", ""),
       Step("Stopping instance", 10, "in_progress", ""),
       Step("Instance stopped", 30, "in_progress", ""),
       Step("Changing instance type", 40, "in_progress", ""),
       Step("Instance type changed", 60, "in_progress", ""),
       Step("Starting instance", 70, "in_progress", ""),
       Step("Instance running", 100, "completed", "") >>

FullCalls ==
    << [op |-> "stop", ok |-> TRUE], [op |-> "wait_stopped", ok |-> TRUE],
       [op |-> "modify", ok |-> TRUE], [op |-> "start", ok |-> TRUE],
       [op |-> "wait_running", ok |-> TRUE] >>

\* the number of control calls that have returned when the step of this
\* percentage is journaled
CallsBefore(percent) ==
    CASE percent = 0 -> 0 [] percent = 10 -> 0 [] percent = 30 -> 2 [] percent = 40 -> 2
      [] percent = 60 -> 3 [] percent = 70 -> 3 [] percent = 100 -> 5

AllSucceeded(d) == \A k \in 1..Len(calls[d]) : calls[d][k].ok

\* the status of log d was last written by the external cancel
CanceledLast(d) == cancelMark[d] # NoMark /\ cancelMark[d].steps = Len(logs[d].steps)

\* C3: while every control call and waiter of a resize succeeds, its journal
\* is a prefix of 10, 30, 40, 60, 70, 100 (after the 0% step of the background
\* task), in this order and strictly increasing; the status the orchestrator
\* writes is in_progress with each of the first five and completed with the
\* last; and each step is written only after the calls that precede it in the
\* code have returned, so completed only after the running waiter.
C3_HappyPathJournal ==
    \A d \in DocIds :
        (logs[d].found /\ AllSucceeded(d)) =>
            /\ IsPrefix(logs[d].steps, FullJournal)
            /\ IsPrefix(calls[d], FullCalls)
            /\ \A k \in 2..Len(logs[d].steps) :
                  /\ logs[d].steps[k].percent_complete > logs[d].steps[k - 1].percent_complete
                  /\ Len(calls[d]) >= CallsBefore(logs[d].steps[k].percent_complete)
            /\ (logs[d].steps # <<>> /\ ~CanceledLast(d)) =>
                  logs[d].status = logs[d].steps[Len(logs[d].steps)].status
            /\ logs[d].status = "completed" => calls[d] = FullCalls

\* a resize that ran to the end: seven steps, five calls, status completed
C3_Witness ==
    \E d \in DocIds :
        /\ logs[d].found /\ logs[d].status = "completed"
        /\ logs[d].steps = FullJournal
        /\ calls[d] = FullCalls

\* the resize of log d has a control call that raised, and its except clause
\* has run
FailedAt(d, k) == k \in 1..Len(calls[d]) /\ ~calls[d][k].ok
Handled(d) == req[d[1]].pc # "except"

\* C4: when a control call or waiter of a resize raises, it is the last call
\* of that resize (nothing is rolled back or restarted); once the except
\* clause has run, the last step of the log is a failed step with the
\* exception's message, the log status is failed, and the exception has been
\* re-raised to the caller.
C4_FailureHandling ==
    \A d \in DocIds : \A k \in 1..Len(calls[d]) :
        FailedAt(d, k) =>
            /\ k = Len(calls[d])
            /\ IsPrefix(SubSeq(calls[d], 1, k - 1), FullCalls)
            /\ calls[d][k].op = FullCalls[k].op
            /\ Handled(d) =>
                  /\ logs[d].steps[Len(logs[d].steps)] =
                        Step("Error occurred", 0, "failed", ErrorMessage(calls[d][k].op))
                  /\ logs[d].status = "failed"
                  /\ req[d[1]].raised = ErrorMessage(calls[d][k].op)
                  /\ req[d[1]].pc = "done"

\* a resize whose running waiter raised, handled
C4_Witness ==
    \E d \in DocIds :
        /\ FailedAt(d, 5) /\ Handled(d)
        /\ logs[d].status = "failed"
        /\ req[d[1]].raised = "WaiterError: instance_running"

\* the change-instance-type call of the resize of log d raised and the except
\* clause has run
ModifyFailed(d) == FailedAt(d, 3) /\ calls[d][3].op = "modify" /\ Handled(d)

\* C5 (as claimed): after a failed change-instance-type call the step right
\* before the terminal failed step is the 30% step.
C5_FailedRightAfter30 ==
    \A d \in DocIds :
        ModifyFailed(d) =>
            LET n == Len(logs[d].steps)
            IN /\ logs[d].steps[n].status = "failed" /\ logs[d].steps[n].message # ""
               /\ logs[d].steps[n - 1].percent_complete = 30

\* C5 (amended): after a failed change-instance-type call the log shows the
\* 30% step, then the 40% step journaled before the call was made, then
\* immediately the terminal failed step with a non-empty message; no step of
\* 60% or more (type changed, starting, running) is in the log.
C5_FailedAfterBeginStep ==
    \A d \in DocIds :
        ModifyFailed(d) =>
            LET n == Len(logs[d].steps)
            IN /\ n = 5
               /\ logs[d].steps[n].status = "failed" /\ logs[d].steps[n].message # ""
               /\ logs[d].steps[n - 1] = Step("Changing instance type", 40, "in_progress", "")
               /\ logs[d].steps[n - 2] = Step("Instance stopped", 30, "in_progress", "")
               /\ \A k \in 1..n : logs[d].steps[k].percent_complete < 60
               /\ logs[d].status = "failed"

\* a resize whose change-instance-type call raised, handled, log failed
C5_Witness ==
    \E d \in DocIds :
        /\ ModifyFailed(d)
        /\ logs[d].status = "failed"
        /\ logs[d].steps[Len(logs[d].steps)].message = "ClientError: ModifyInstanceAttribute"

\* C6: once the status of a resize's log has been set to canceled from
\* outside, it stays canceled, no step is appended to the log and no control
\* call is issued for the resize.
C6_CancelRespected ==
    \A d \in DocIds :
        cancelMark[d] # NoMark =>
            /\ logs[d].status = "canceled"
            /\ Len(logs[d].steps) = cancelMark[d].steps
            /\ Len(calls[d]) = cancelMark[d].calls

(***************************************************************************)
(* Properties of the gap fetch, of the recommendation index and of the     *)
(* fleet cycle.                                                            *)
(***************************************************************************)
\* C7: with live fetching, a get_metric_statistics request for a label is made
\* only when nothing of the label is cached in the window or the latest cached
\* timestamp plus one period lies before the end of the window, and it asks
\* for exactly the interval from there (from the start of the window when
\* nothing is cached) to the end of the window; a call whose window ends at or
\* before the latest cached timestamp makes no request.
C7_GapFetchMinimal ==
    \A k \in 1..Len(fetches) :
        LET f == fetches[k]
        IN /\ mcall[f.by].active
           /\ f.EndTime = mcall[f.by].end_time
           /\ f.latest = NoCache => f.StartTime = f.start_time
           /\ f.latest # NoCache =>
                 /\ f.latest + Period < f.EndTime
                 /\ f.StartTime = f.latest + Period

\* C8: the recommendation index holds at most one document per instance.
C8_AtMostOneRecommendation == \A i \in Instances : recs[i] <= 1

\* C10: a cycle in which the processing of a host raised still ends by
\* returning, with the result of every host whose processing returned.
C10_FailureIsolated ==
    (cycle.pc # "gather" /\ \E h \in HostIps : host[h].pc = "raised") =>
        /\ cycle.pc = "returned"
        /\ \A h \in HostIps : host[h].pc = "returned" => h \in cycle.final_response

\* the get_metric_statistics requests made by call m
FetchesBy(m) == {k \in 1..Len(fetches) : fetches[k].by = m}

\* C11: a get_instance_metrics call whose describe_instances reports
\* InvalidInstanceID.NotFound returns the empty result: it loads nothing, makes
\* no get_metric_statistics request and queues nothing for indexing; a call
\* whose describe_instances fails with another error raises and does not
\* return the empty result.
C11_NotFoundIsEmpty ==
    \A m \in MetricCallers :
        /\ mcall[m].describe = "InvalidInstanceID.NotFound" =>
              /\ mcall[m].pc = "empty"
              /\ \A l \in LabelSet : mcall[m].loaded[l] = <<>> /\ mcall[m].results[l] = <<>>
              /\ mcall[m].all_actions = <<>>
              /\ FetchesBy(m) = {}
        /\ mcall[m].describe \notin {"none", "InvalidInstanceID.NotFound"} =>
              mcall[m].pc = "raised" /\ FetchesBy(m) = {}
        /\ mcall[m].pc = "empty" => mcall[m].describe = "InvalidInstanceID.NotFound"

\* one call returned the empty result for an instance that is gone, while the
\* other call, with live fetching, fetched, indexed and returned its series
C11_Witness ==
    \E m, n \in MetricCallers :
        /\ mcall[m].pc = "empty" /\ mcall[m].active
        /\ mcall[n].pc = "done" /\ FetchesBy(n) # {}

\* C12: the steps of a status log are exactly the steps whose append_step
\* returned, in the order of the updates, whatever log creations and appends
\* interleave; and no append_step fails because the log does not exist yet.
C12_AppendOnlyUpsert ==
    /\ missing = {}
    /\ ldoc.found => ldoc.steps = appended
    /\ ~ldoc.found => appended = <<>>

(***************************************************************************)
(* Properties of server_status_check.                                      *)
(***************************************************************************)
\* the blobs of the snapshots given, the configuration of a service
AllBlobs == {tasks[t][b] : t \in 1..Len(tasks), b \in 1..Len(tasks[1])}
ConfOf(service) ==
    LET s == CHOOSE s \in 1..Len(fail_state) : fail_state[s].service = service
    IN fail_state[s].conf

\* the disk entries of the snapshots, with their partition
DiskEntriesOf(partition) ==
    UNION {{b.disk[j] : j \in {j \in 1..Len(b.disk) : b.disk[j].partition = partition}} :
              b \in {b \in AllBlobs : "disk" \in DOMAIN b}}

\* the value satisfies the comparison of the condition
Holds(c, v) ==
    /\ v # NoValue
    /\ CASE c.compare_logic = "gte" -> v >= c.value
         [] c.compare_logic = "lte" -> v <= c.value
         [] c.compare_logic = "equals" -> v = c.value
         [] c.compare_logic = "not_equals" -> v # c.value

Percents(c) ==
    {e.percent : e \in {e \in DiskEntriesOf(c.partition) : "percent" \in DOMAIN e /\ Holds(c, e.percent)}}

\* C13: for every disk condition, when an entry of its partition has a percent
\* that satisfies it, the output holds disk[partition] with result true, that
\* percent as detail and the description of the condition; when no entry
\* satisfies any condition of the partition, the output has no such key.
C13_DiskRule ==
    (final_result.done /\ \E b \in AllBlobs : "disk" \in DOMAIN b) =>
        \A i \in 1..Len(ConfOf("disk")) :
            LET c == ConfOf("disk")[i]
                key == <<"disk", c.partition>>
            IN /\ Percents(c) # {} =>
                     /\ ~final_result.raised
                     /\ key \in DOMAIN final_result.out
                     /\ final_result.out[key].result
                     /\ final_result.out[key].detail \in Percents(c)
                     /\ final_result.out[key].description = c.description
               /\ (\A j \in 1..Len(ConfOf("disk")) :
                       ConfOf("disk")[j].partition = c.partition => Percents(ConfOf("disk")[j]) = {})
                  => key \notin DOMAIN final_result.out

\* the conditions configured for a key of the output, in configuration order
ConditionsOf(key) ==
    IF key[1] = "disk"
    THEN SelectSeq(ConfOf("disk"), LAMBDA c : c.partition = key[2])
    ELSE LET conf == ConfOf(key[1])
             m == CHOOSE m \in 1..Len(conf) : conf[m].metric = key[2]
         IN conf[m].conditions

\* C18: a recorded failing state carries the description of the first
\* condition, in configuration order, that its value satisfies.
C18_FirstMatchWins ==
    (final_result.done /\ ~final_result.raised) =>
        \A key \in DOMAIN final_result.out :
            LET cs == ConditionsOf(key)
                v == final_result.out[key].detail
                first == CHOOSE i \in 1..Len(cs) :
                             Holds(cs[i], v) /\ \A j \in 1..(i - 1) : ~Holds(cs[j], v)
            IN final_result.out[key].description = cs[first].description

\* C19: the evaluation never raises; a check whose field is missing from the
\* blob produces no key, and the other checks are evaluated.
C19_MissingFieldSkipped ==
    final_result.done =>
        /\ ~final_result.raised
        /\ \A b \in AllBlobs :
              "mongodb" \in DOMAIN b =>
                  (<<"mongodb", "connections">> \in DOMAIN final_result.out
                   <=> ("connections" \in DOMAIN b.mongodb /\ b.mongodb.connections >= 100))

\* the values of the datapoints of the series with the greatest timestamp
LatestValues(series) ==
    {series[k].Value : k \in {k \in 1..Len(series) :
                                 \A j \in 1..Len(series) : series[j].Timestamp <= series[k].Timestamp}}

\* C20: for a non-empty cpu series, the failing state cloudwatch[cpu] is
\* recorded, with the value of the latest datapoint as detail, exactly when
\* that value satisfies a configured condition of the metric.
C20_LatestDatapointTested ==
    final_result.done =>
        \A b \in AllBlobs :
            ("cloudwatch" \in DOMAIN b /\ b.cloudwatch.cpu # <<>>) =>
                LET key == <<"cloudwatch", "cpu">>
                    cs == ConditionsOf(key)
                    failing == {v \in LatestValues(b.cloudwatch.cpu) :
                                   \E i \in 1..Len(cs) : Holds(cs[i], v)}
                IN /\ key \in DOMAIN final_result.out => final_result.out[key].detail \in failing
                   /\ failing = LatestValues(b.cloudwatch.cpu) => key \in DOMAIN final_result.out

(***************************************************************************)
(* Properties of recommend_instance.                                       *)
(***************************************************************************)
\* a percentage p/q * 100 lies strictly between the two thresholds
Between(p, q, lower, upper) == p * 100 > lower * q /\ p * 100 < upper * q

\* C14: an evaluation in which neither over nor under holds, in particular
\* one with cpu_pct, swap_pct and net_pct all strictly between 25 and 75,
\* answers changed = false and the current instance type.
C14_Hysteresis ==
    \A r \in rlog :
        (\/ ~r.over /\ ~r.under
         \/ /\ Between(r.cpu_pct, 1, cpu_lower, cpu_upper)
            /\ r.host.swap_total # 0
            /\ Between(r.host.swap_used, r.host.swap_total, swap_lower, swap_upper)
            /\ Between(r.net_pct, 1, net_lower, net_upper))
        => ~r.changed /\ r.NewInstanceType = r.host.InstanceType

\* an evaluation with neither over nor under, on a host that a smaller
\* type would fit
C14_Witness ==
    \E r \in rlog :
        /\ ~r.over /\ ~r.under
        /\ r.cpu_pct < cpu_lower
        /\ r.host.InstanceType = "m5.xlarge"
        /\ r.NewInstanceType = "m5.xlarge"

\* the candidates that meet the scale-up requirement of the evaluation
Qualifying(r) ==
    {i \in 1..Len(r.cands) :
        /\ Ec2Types[r.cands[i]].vcpus >= r.req_vcpus
        /\ Ec2Types[r.cands[i]].memory_mib >= r.req_mem_up}

\* C15: when over holds, req_vcpus is max(1, ceil(vcpus * cpu_pct / 100 * 2)),
\* the candidates are the architecture-compatible types of the family in
\* ascending (vCPU, memory) order, and the answer is the first candidate
\* with enough vCPUs and memory, or the largest candidate when none has.
C15_ScaleUpSelection ==
    \A r \in rlog :
        r.over =>
            LET current == r.host.InstanceType
                n == Ec2Types[current].vcpus * r.cpu_pct * 2
            IN /\ r.req_vcpus >= 1
               /\ r.req_vcpus * 100 >= n
               /\ r.req_vcpus > 1 => (r.req_vcpus - 1) * 100 < n
               /\ Range(r.cands) =
                      {it \in DOMAIN Ec2Types :
                          /\ Ec2Types[it].family = Ec2Types[current].family
                          /\ Ec2Types[it].architectures \cap Ec2Types[current].architectures # {}}
               /\ \A i, j \in 1..Len(r.cands) :
                      i < j => /\ Ec2Types[r.cands[i]].vcpus <= Ec2Types[r.cands[j]].vcpus
                               /\ Ec2Types[r.cands[i]].vcpus = Ec2Types[r.cands[j]].vcpus
                                      => Ec2Types[r.cands[i]].memory_mib <= Ec2Types[r.cands[j]].memory_mib
               /\ Qualifying(r) # {} =>
                      \E i \in Qualifying(r) : /\ r.NewInstanceType = r.cands[i]
                                               /\ \A j \in 1..(i - 1) : j \notin Qualifying(r)
               /\ Qualifying(r) = {} => r.NewInstanceType = r.cands[Len(r.cands)]

\* a host at 90% CPU whose type is doubled and then needs more memory than
\* the next size has, and a host for which no candidate qualifies
C15_Witness ==
    /\ \E r \in rlog :
           /\ r.over /\ r.cpu_pct = 90
           /\ r.host.InstanceType = "m5.large" /\ r.req_vcpus = 4
           /\ r.NewInstanceType = "m5.2xlarge"
    /\ \E r \in rlog :
           /\ r.over /\ Qualifying(r) = {}
           /\ r.NewInstanceType = "m5.2xlarge"

\* C17: two evaluations of the same load summary answer the same
\* NewInstanceType and the same changed flag, whatever the cache held.
C17_Deterministic ==
    \A r1, r2 \in rlog :
        r1.host = r2.host =>
            /\ r1.NewInstanceType = r2.NewInstanceType
            /\ r1.changed = r2.changed

\* the same load summary evaluated with the cache empty and with the cache
\* filled by the evaluation before
C17_Witness ==
    \E r1, r2 \in rlog :
        /\ r1.host = r2.host
        /\ r1.cached = {} /\ r2.cached # {}
        /\ r1.over /\ r1.changed

(***************************************************************************)
(* Properties of the derived network totals.                               *)
(***************************************************************************)
TimestampsOf(series) == {series[i].Timestamp : i \in 1..Len(series)}
ValuesAt(series, ts) == {series[i].Value : i \in {i \in 1..Len(series) : series[i].Timestamp = ts}}

\* C16: network_total holds exactly one point for every timestamp that is in
\* both network_in and network_out, its value the sum of the two values at
\* that timestamp, in ascending order of timestamp, and no other point.
C16_TotalIsJoin ==
    (results.pc = "derived" /\ "network_total" \in DOMAIN results) =>
        LET total == results.network_total
            common == TimestampsOf(results.network_in) \cap TimestampsOf(results.network_out)
        IN /\ TimestampsOf(total) = common
           /\ Len(total) = Cardinality(common)
           /\ \A i \in 1..(Len(total) - 1) : total[i].Timestamp < total[i + 1].Timestamp
           /\ \A i \in 1..Len(total) :
                  \E a \in ValuesAt(results.network_in, total[i].Timestamp),
                     b \in ValuesAt(results.network_out, total[i].Timestamp) :
                      total[i].Value = a + b

\* in = [(1, 100), (2, ...)], out = [(1, 50)] gave exactly [(1, 150)]
C16_Witness ==
    /\ results.pc = "derived" /\ "network_total" \in DOMAIN results
    /\ Len(results.network_in) = 2 /\ Len(results.network_out) = 1
    /\ results.network_in[1] = BytesPoint(1, 100)
    /\ results.network_in[2].Timestamp = 2
    /\ results.network_out[1] = BytesPoint(1, 50)
    /\ results.network_total = <<BytesPoint(1, 150)>>

\* C23: the effective swap of an evaluation is the smaller of the recommended
\* and the configured swap and never exceeds the configured swap, also when
\* no swap is configured.
C23_EffectiveSwapBounded ==
    \A r \in rlog :
        /\ r.effective_swap_mib = Min(r.rec_swap_mib, r.host.swap_total)
        /\ r.effective_swap_mib <= r.host.swap_total

\* C26: when under holds the answer is never larger than the current type by
\* (vCPU, memory): the action is "down" or "none".
C26_UnderNeverUp ==
    \A r \in rlog :
        r.under =>
            /\ r.action \in {"down", "none"}
            /\ Ec2Types[r.NewInstanceType].vcpus <= Ec2Types[r.host.InstanceType].vcpus
            /\ Ec2Types[r.NewInstanceType].vcpus = Ec2Types[r.host.InstanceType].vcpus
                   => Ec2Types[r.NewInstanceType].memory_mib <= Ec2Types[r.host.InstanceType].memory_mib

\* the mean of the CPU samples of a host, in percent (0 without samples)
CpuMean(h) == IF h.cpu = << >> THEN 0 ELSE Mean(h.cpu)

\* C30: cpu_pct is non-decreasing in the mean of the CPU samples; a host with
\* a mean below cpu_lower is not over because of CPU, and with swap and
\* network not above their upper thresholds it is not given a larger type.
C30_CpuPctMonotone ==
    /\ \A r1, r2 \in rlog : CpuMean(r1.host) <= CpuMean(r2.host) => r1.cpu_pct <= r2.cpu_pct
    /\ \A r \in rlog :
           CpuMean(r.host) < cpu_lower =>
               /\ r.cpu_pct <= cpu_upper
               /\ (/\ r.host.swap_used * 100 <= swap_upper * r.host.swap_total
                   /\ r.net_pct <= net_upper)
                  => r.action # "up"

(***************************************************************************)
(* Properties of the persisted and the returned metric series.             *)
(***************************************************************************)
\* C21: the persisted series of every metric label holds no two points with
\* the same timestamp, and every series a call has built for its result is in
\* ascending order of timestamp.
C21_SeriesUniqueAscending ==
    /\ \A l \in LabelSet : Cardinality(Range(store[l])) = Len(store[l])
    /\ \A m \in MetricCallers :
           mcall[m].pc \in {"index", "return", "done"} =>
               \A l \in LabelSet :
                   \A k \in 1..(Len(mcall[m].results[l]) - 1) :
                       mcall[m].results[l][k] <= mcall[m].results[l][k + 1]

(***************************************************************************)
(* Properties of the background task: the order of its writes and calls.   *)
(***************************************************************************)
\* the request has issued a control call, or is at its first one
CallsStarted(r) ==
    \/ \E i \in Instances : calls[<<r, i>>] # <<>>
    \/ req[r].pc \in ApiPcs

InitiatedStep == Step("Scale operation initiated", 0, "in_progress", "")

\* the log of every safe instance of the request exists with the 0% step
LogsInitiated(r) ==
    \A j \in Range(req[r].safe_to_scale) :
        LET doc == logs[<<r, j>>]
        IN /\ doc.found
           /\ doc.steps # <<>>
           /\ doc.steps[1] = InitiatedStep
           /\ doc.lastUpdated # NoTime
           /\ Len(doc.steps) = 1 => doc.status = "in_progress"

\* the background task of the request is between its first control call and
\* its end
GroupBeingResized(r) == CallsStarted(r) /\ req[r].pc # "done"

Journaled(d, percent) ==
    \E k \in 1..Len(logs[d].steps) : logs[d].steps[k].percent_complete = percent

\* the call returned among the first n calls of the resize
ReturnedWithin(d, op, n) ==
    \E j \in 1..n : calls[d][j] = [op |-> op, ok |-> TRUE]

\* what must be there when the call op of the resize d is issued as its
\* call number n + 1
CallInOrder(d, op, n) ==
    /\ op = "stop" => Journaled(d, 10)
    /\ op = "modify" =>
          /\ ReturnedWithin(d, "wait_stopped", n)
          /\ Journaled(d, 30) /\ Journaled(d, 40)
    /\ op = "start" =>
          /\ ReturnedWithin(d, "modify", n)
          /\ Journaled(d, 60) /\ Journaled(d, 70)

\* C28: within one resize the modification is issued only after the stopped
\* waiter returned and the 30% step is journaled, the start only after the
\* modification returned and the 60% step is journaled, and each of the
\* three calls only after its own begin step (10%, 40%, 70%).
C28_ControlCallOrder ==
    /\ \A d \in DocIds : \A n \in 1..Len(calls[d]) : CallInOrder(d, calls[d][n].op, n - 1)
    /\ \A r \in Reqs :
           req[r].pc \in ApiPcs => CallInOrder(CurrentDoc(r), req[r].pc, Len(calls[CurrentDoc(r)]))

\* a resize that has issued its start call
C28_Witness ==
    \E d \in DocIds : \E n \in 1..Len(calls[d]) : calls[d][n] = [op |-> "start", ok |-> TRUE]

\* the instance was stopped by the request and has not come back to running
Down(r, i) ==
    /\ \E n \in 1..Len(calls[<<r, i>>]) : calls[<<r, i>>][n].op = "stop"
    /\ ~\E n \in 1..Len(calls[<<r, i>>]) : calls[<<r, i>>][n] = [op |-> "wait_running", ok |-> TRUE]

\* C29: within one request the stop call of a safe instance is issued only
\* when the resize of the one before it has reached completed, and at most
\* one instance is stopped or being modified by the request at any time.
C29_OneAtATime ==
    \A r \in Reqs :
        LET safe == req[r].safe_to_scale
        IN /\ \A k \in 2..Len(safe) :
                  (\/ calls[<<r, safe[k]>>] # <<>>
                   \/ req[r].pc \in ApiPcs /\ req[r].k = k)
                  => logs[<<r, safe[k - 1]>>].status = "completed"
           /\ Cardinality({i \in Range(safe) : Down(r, i)}) <= 1

\* the second safe instance of a request is stopped after the first one came
\* back
C29_Witness ==
    \E r \in Reqs :
        /\ Len(req[r].safe_to_scale) = 2
        /\ Down(r, req[r].safe_to_scale[2])
        /\ ~Down(r, req[r].safe_to_scale[1])

(***************************************************************************)
(* Properties of the confirm request as a whole.                           *)
(***************************************************************************)
\* C24: every status log that is in_progress eventually has the status
\* completed or failed.
C24_LogsReachTerminal ==
    \A d \in DocIds :
        (logs[d].found /\ logs[d].status = "in_progress")
            ~> (logs[d].found /\ logs[d].status \in {"completed", "failed"})

\* a stop call of the resize was issued
StopIssued(d) == \E n \in 1..Len(calls[d]) : calls[d][n].op = "stop"

\* C25: a request for an instance that has a recommendation, is in no Auto
\* Scaling group and has no in_progress log of the last 30 minutes leads to
\* its status log being created and its stop call being issued.
C25_ConfirmStartsResize ==
    \A r \in Reqs : \A i \in Targets :
        (/\ req[r].pc = "gate" /\ req[r].instance_id = i
         /\ MonitoringData[i].AsgName = NoTag
         /\ ~RecentInProgress(i, now))
            ~> (logs[<<r, i>>].found /\ StopIssued(<<r, i>>))

\* the steps of the host tasks of the fleet cycle
HostSteps ==
    LoopFree /\ (\/ \E h \in HostIps, percent \in {NoValue, 80} : ProcessHostStart(h, percent, TRUE)
                 \/ \E h \in HostIps, metrics_raised \in BOOLEAN : ProcessHostFinish(h, metrics_raised))

\* C22: while a resize is inside a control call or a waiter, a host task of
\* the fleet cycle that has work to do can take its step.
C22_ResizeOffLoop ==
    (/\ \E r \in Reqs : req[r].pc \in ApiPcs
     /\ \E h \in HostIps : host[h].pc \in {"created", "metrics"})
    => ENABLED HostSteps

====
